---- MODULE Spec2Model ----
(***************************************************************************)
(* Status-parsing and message-synthesis pipeline of gitcommitmessage:      *)
(* parseStatus, getChangedFiles and buildSimpleMessage (lib/message), with *)
(* plural (lib/utils) and CONSTANTS.MAX_FILE_SAMPLES (lib/constants), and  *)
(* the main command of bin/gcm that runs them.                             *)
(*                                                                         *)
(* Strings are TLA+ strings; TLC evaluates Len, SubSeq and \o on them, so  *)
(* the parsing below works character by character as the source does.     *)
(***************************************************************************)
EXTENDS Integers, Sequences, FiniteSets, TLC

VARIABLES
    text,        \* the status text handed to parseStatus
    lines,       \* parseStatus: const lines
    idx,         \* parseStatus: position of the for-of loop in lines (1-based)
    summary,     \* parseStatus: const summary (the StatusSummary being built)
    prev,        \* history: summary as it was before the line handled last
    pc,          \* "start" | "loop" | "parsed" | "files" | "done"
    stagedOnly,  \* opts.stagedOnly of the run
    files,       \* result of getChangedFiles (a sequence without duplicates)
    message      \* result of buildSimpleMessage

\* the main command of bin/gcm
VARIABLES
    opts,        \* const opts: [stagedOnly, commit, simple, verbose]
    env,         \* what the run finds: [hasConfig, GEMINI_API_KEY, insideRepo]
    mpc,         \* position of the main command's action
    diff,        \* const diff
    out,         \* the lines written with console.log
    errOut,      \* the lines written with console.error
    exitCode,    \* Null while the process runs, then Some(code)
    calls        \* history: the calls made so far, [fn, arg, res]

\* git.getDiff
VARIABLES
    dFiles,      \* the parameter files
    dStaged,     \* the parameter stagedOnly
    dpc,         \* position in getDiff
    gitOut,      \* what the git diff invocations returned: [cached, worktree]
    gitArgs,     \* history: the argument lists handed to runGit
    diffOutput,  \* let diffOutput, as a sequence of pieces
    dResult      \* Null until getDiff returns, then Some(value)

diffVars == <<dFiles, dStaged, dpc, gitOut, gitArgs, diffOutput, dResult>>

\* utils.truncate
VARIABLES
    tStr,        \* the parameter str
    tMax,        \* the parameter maxLength
    tpc,         \* "call" | "done"
    tResult      \* the value returned

truncVars == <<tStr, tMax, tpc, tResult>>

\* logger.Logger
VARIABLES
    lArg,        \* the constructor's parameter level
    lVerbose,    \* this.verbose
    lLevel,      \* this.level
    lpc,         \* "new" before the constructor has run, then "ready"
    lCalls,      \* history: the methods called, [method, emitted]
    lEmitted     \* the lines written with console.error

logVars == <<lArg, lVerbose, lLevel, lpc, lCalls, lEmitted>>

\* utils.retry
VARIABLES
    rMax,        \* the parameter maxAttempts
    rDelay,      \* the parameter delay
    rAttempt,    \* let attempt
    rpc,         \* "loop" | "wait" | "done"
    rErr,        \* const err of the catch block, while the timer runs
    rLastError,  \* let lastError: Null or Some(error)
    rLog,        \* history: the calls of fn and the timers, in order
    rResult      \* Null until retry settles, then Some([kind, value])

retryVars == <<rMax, rDelay, rAttempt, rpc, rErr, rLastError, rLog, rResult>>

\* message.generateWithGemini, with the cache and the Gemini service
VARIABLES
    gApi,        \* what the Gemini service can answer in this run
    gCache,      \* the cache directory: file name -> Null or Some(CacheData)
    gNow,        \* Date.now()
    gCallNo,     \* number of calls of generateWithGemini so far
    gIn,         \* the current call: what it is handed and what it finds
    gpc,         \* "idle" | "try" | "done"
    gModels,     \* const uniqueModels
    gIdx,        \* position of the loop over uniqueModels
    gAttempt,    \* let attempt of retry
    gLastError,  \* let lastError: Null or Some(error)
    gResult,     \* Null until the call settles, then Some([kind, value])
    gTried,      \* history: the models called, [model, attempts]
    gOps,        \* history: the cache operations of the call
    gGenerated   \* history: cache key -> the last message generated for it

genVars == <<gApi, gCache, gNow, gCallNo, gIn, gpc, gModels, gIdx, gAttempt,
             gLastError, gResult, gTried, gOps, gGenerated>>

\* templates.buildPromptFromTemplate
VARIABLES
    pSummary,    \* the parameter summary
    pDiff,       \* the parameter diff
    pFiles,      \* the parameter files
    pStagedOnly, \* opts.stagedOnly
    ppc,         \* "call" | "done"
    pPrompt      \* the value returned

promptVars == <<pSummary, pDiff, pFiles, pStagedOnly, ppc, pPrompt>>

\* the variables of the library functions that are run on their own
libVars == <<diffVars, truncVars, logVars, retryVars, genVars, promptVars>>

\* the variables of the pipeline and of the main command
appVars == <<text, lines, idx, summary, prev, pc, stagedOnly, files, message,
             opts, env, mpc, diff, out, errOut, exitCode, calls>>

\* everything but the variables of one library function
notDiff == <<appVars, truncVars, logVars, retryVars, genVars, promptVars>>

notTrunc == <<appVars, diffVars, logVars, retryVars, genVars, promptVars>>

notLog == <<appVars, diffVars, truncVars, retryVars, genVars, promptVars>>

notRetry == <<appVars, diffVars, truncVars, logVars, genVars, promptVars>>

notGen == <<appVars, diffVars, truncVars, logVars, retryVars, promptVars>>

notPrompt == <<appVars, diffVars, truncVars, logVars, retryVars, genVars>>

mainVars == <<opts, env, mpc, diff, out, errOut, exitCode, calls, libVars>>

vars == <<text, lines, idx, summary, prev, pc, stagedOnly, files, message,
          mainVars>>

----------------------------------------------------------------------------
(* Bounds of the model *)

\* number of chunks of the mixed pool a status text is built from
MaxLines == 2
\* number of lines of a long text (two records, each repeated)
MaxRun == 11
\* largest ahead/behind count the properties quantify over
MaxAb == 10

\* longest file list handed to getDiff
MaxFiles == 22
\* number of calls of generateWithGemini in one run
MaxGenCalls == 2
\* largest maxAttempts handed to retry
MaxAttempts == 3
\* number of messages handed to one Logger
MaxLogs == 2
\* longest string and largest maxLength handed to truncate
MaxStr == 9
MaxTruncate == 9

(* Program constants *)
MAX_FILE_SAMPLES == 10

MAX_DIFF_SIZE == 50000

MAX_FILES_FOR_DIFF == 20

MAX_FILE_LIST_DISPLAY == 30

MAX_SUBJECT_LENGTH == 72

MAX_BODY_LINE_LENGTH == 72

API_RETRY_ATTEMPTS == 3

API_RETRY_DELAY == 1000

API_RETRY_BACKOFF == 2

DEFAULT_MODELS ==
    <<"gemini-3-flash-preview", "gemini-3-pro-preview", "gemini-1.5-flash",
      "gemini-1.5-pro", "gemini-pro">>

GEMINI_API_KEY_URL == "https://aistudio.google.com/apikey"

CACHE_MAX_AGE == 7 * 24 * 60 * 60 * 1000

----------------------------------------------------------------------------
(* String primitives of the source language *)

\* s[i] (1-based); "" stands for undefined, which equals no character
CharAt(s, i) == IF 1 <= i /\ i <= Len(s) THEN SubSeq(s, i, i) ELSE ""

\* the characters m..n of s that exist
Substring(s, m, n) == SubSeq(s, m, IF n > Len(s) THEN Len(s) ELSE n)

\* String.prototype.startsWith
StartsWith(s, p) == Len(s) >= Len(p) /\ SubSeq(s, 1, Len(p)) = p

\* String.prototype.slice(n), n >= 0
Slice(s, n) == SubSeq(s, n + 1, Len(s))

\* the characters of \s that occur in the texts of this model
IsSpace(c) == c \in {" ", "\t", "\r", "\n"}

IsDigit(c) == c \in {"0", "1", "2", "3", "4", "5", "6", "7", "8", "9"}

RECURSIVE TrimStart(_)
TrimStart(s) ==
    IF Len(s) > 0 /\ IsSpace(CharAt(s, 1)) THEN TrimStart(Slice(s, 1)) ELSE s

RECURSIVE TrimEnd(_)
TrimEnd(s) ==
    IF Len(s) > 0 /\ IsSpace(CharAt(s, Len(s)))
    THEN TrimEnd(SubSeq(s, 1, Len(s) - 1))
    ELSE s

\* String.prototype.trim
Trim(s) == TrimEnd(TrimStart(s))

\* first position >= i of s that holds "\n" (Len(s) + 1 if none)
RECURSIVE LineEnd(_, _)
LineEnd(s, i) ==
    IF i > Len(s) \/ CharAt(s, i) = "\n" THEN i ELSE LineEnd(s, i + 1)

\* output.split(/\r?\n/) from position i on: the pieces between line
\* terminators, empty ones kept
RECURSIVE SplitNewlines(_, _)
SplitNewlines(s, i) ==
    LET e    == LineEnd(s, i)
        last == IF e > i /\ CharAt(s, e - 1) = "\r" THEN e - 2 ELSE e - 1
    IN  IF e > Len(s) THEN <<SubSeq(s, i, Len(s))>>
        ELSE <<SubSeq(s, i, last)>> \o SplitNewlines(s, e + 1)

\* output.split(/\r?\n/).filter(Boolean)
SplitLines(s) == SelectSeq(SplitNewlines(s, 1), LAMBDA l : l # "")

\* first position >= i of s that holds no whitespace (Len(s) + 1 if none)
RECURSIVE SkipSpace(_, _)
SkipSpace(s, i) ==
    IF i <= Len(s) /\ IsSpace(CharAt(s, i)) THEN SkipSpace(s, i + 1) ELSE i

\* first position >= i of s that holds whitespace (Len(s) + 1 if none)
RECURSIVE FieldEnd(_, _)
FieldEnd(s, i) ==
    IF i > Len(s) \/ IsSpace(CharAt(s, i)) THEN i ELSE FieldEnd(s, i + 1)

\* line.split(/\s+/) from position i on: leading or trailing whitespace
\* yields an empty field
RECURSIVE SplitFields(_, _)
SplitFields(s, i) ==
    LET e == FieldEnd(s, i)
    IN  IF e > Len(s) THEN <<SubSeq(s, i, Len(s))>>
        ELSE <<SubSeq(s, i, e - 1)>> \o SplitFields(s, SkipSpace(s, e))

SplitWhitespace(s) == SplitFields(s, 1)

\* first position >= i of s that holds no digit
RECURSIVE SkipDigits(_, _)
SkipDigits(s, i) ==
    IF i <= Len(s) /\ IsDigit(CharAt(s, i)) THEN SkipDigits(s, i + 1) ELSE i

DigitValue(c) ==
    CASE c = "0" -> 0 [] c = "1" -> 1 [] c = "2" -> 2 [] c = "3" -> 3
      [] c = "4" -> 4 [] c = "5" -> 5 [] c = "6" -> 6 [] c = "7" -> 7
      [] c = "8" -> 8 [] c = "9" -> 9

RECURSIVE DigitsValue(_)
DigitsValue(s) ==
    IF Len(s) = 0 THEN 0
    ELSE 10 * DigitsValue(SubSeq(s, 1, Len(s) - 1)) + DigitValue(CharAt(s, Len(s)))

\* parseInt(s, 10) || 0 for s matching -?\d+
ParseIntOrZero(s) ==
    IF StartsWith(s, "-") THEN 0 - DigitsValue(Slice(s, 1)) ELSE DigitsValue(s)

\* end (exclusive) of a match of -?\d+ at position i of s, or 0
SignedIntEnd(s, i) ==
    LET j == IF i <= Len(s) /\ CharAt(s, i) = "-" THEN i + 1 ELSE i
        k == SkipDigits(s, j)
    IN  IF k > j THEN k ELSE 0

\* a match of /\+(-?\d+)\s+\-(-?\d+)/ that starts at position i of s:
\* <<m[1], m[2]>>, or <<>> when there is none
AbMatchAt(s, i) ==
    IF i > Len(s) \/ CharAt(s, i) # "+" THEN <<>>
    ELSE LET e1 == SignedIntEnd(s, i + 1)
         IN  IF e1 = 0 THEN <<>>
             ELSE LET sp == SkipSpace(s, e1)
                  IN  IF sp = e1 \/ sp > Len(s) \/ CharAt(s, sp) # "-" THEN <<>>
                      ELSE LET e2 == SignedIntEnd(s, sp + 1)
                           IN  IF e2 = 0 THEN <<>>
                               ELSE <<SubSeq(s, i + 1, e1 - 1),
                                      SubSeq(s, sp + 1, e2 - 1)>>

\* ab.match(/\+(-?\d+)\s+\-(-?\d+)/): the leftmost match, <<>> for null
RECURSIVE AbMatchFrom(_, _)
AbMatchFrom(s, i) ==
    IF i > Len(s) THEN <<>>
    ELSE IF AbMatchAt(s, i) # <<>> THEN AbMatchAt(s, i)
    ELSE AbMatchFrom(s, i + 1)

AbMatch(s) == AbMatchFrom(s, 1)

----------------------------------------------------------------------------
(* StatusSummary and parseStatus *)

\* string | null is modelled as a sequence of at most one string
Null == <<>>

Some(s) == <<s>>

\* the summary parseStatus starts from
EmptySummary ==
    [ branch    |-> Null,
      ahead     |-> 0,
      behind    |-> 0,
      staged    |-> [added |-> 0, modified |-> 0, deleted |-> 0,
                     renamed |-> 0, copied |-> 0],
      unstaged  |-> [modified |-> 0, deleted |-> 0],
      untracked |-> 0,
      conflicts |-> 0,
      samples   |-> [added |-> <<>>, modified |-> <<>>, deleted |-> <<>>,
                     renamed |-> <<>>, untracked |-> <<>>] ]

\* mutant of PushSample: the cap is tested with <= and lets an eleventh in
PushSample_OffByOne(list, item) ==
    IF Len(list) <= MAX_FILE_SAMPLES THEN Append(list, item) ELSE list

\* if (list.length < CONSTANTS.MAX_FILE_SAMPLES) list.push(item)
PushSample(list, item) ==
    IF Len(list) < MAX_FILE_SAMPLES THEN Append(list, item) ELSE list

\* mutant of RenameSample: the two sides of the arrow are exchanged
RenameSample_Reversed(origPath, filePath) ==
    IF origPath # <<>> /\ origPath[1] # ""
    THEN filePath \o " -> " \o origPath[1]
    ELSE filePath

\* origPath ? `${origPath} -> ${filePath}` : filePath
RenameSample(origPath, filePath) ==
    IF origPath # Null /\ origPath[1] # ""
    THEN origPath[1] \o " -> " \o filePath
    ELSE filePath

\* mutant of HeaderLine: m[1] and m[2] are assigned the wrong way round
HeaderLine_Swapped(s, line) ==
    IF StartsWith(line, "# branch.head ")
    THEN [s EXCEPT !.branch = <<Trim(Slice(line, Len("# branch.head ")))>>]
    ELSE IF StartsWith(line, "# branch.ab ")
    THEN LET ab == Trim(Slice(line, Len("# branch.ab ")))
             m  == AbMatch(ab)
         IN  IF m # <<>>
             THEN [s EXCEPT !.ahead  = ParseIntOrZero(m[2]),
                            !.behind = ParseIntOrZero(m[1])]
             ELSE s
    ELSE s

\* a line that starts with "# "
HeaderLine(s, line) ==
    IF StartsWith(line, "# branch.head ")
    THEN [s EXCEPT !.branch = Some(Trim(Slice(line, Len("# branch.head "))))]
    ELSE IF StartsWith(line, "# branch.ab ")
    THEN LET ab == Trim(Slice(line, Len("# branch.ab ")))
             m  == AbMatch(ab)
         IN  IF m # <<>>
             THEN [s EXCEPT !.ahead  = ParseIntOrZero(m[1]),
                            !.behind = ParseIntOrZero(m[2])]
             ELSE s
    ELSE s

\* type === '?'
UntrackedLine(s, line) ==
    [s EXCEPT !.untracked = @ + 1,
              !.samples.untracked = PushSample(@, Slice(line, 2))]

\* type === 'u'
ConflictLine(s, line) == [s EXCEPT !.conflicts = @ + 1]

\* mutant of StagedChange: a copy is counted as a rename
StagedChange_CopyCountedAsRename(s, indexStatus, filePath, origPath) ==
    IF indexStatus = "A"
    THEN [s EXCEPT !.staged.added = @ + 1,
                   !.samples.added = PushSample(@, filePath)]
    ELSE IF indexStatus = "M"
    THEN [s EXCEPT !.staged.modified = @ + 1,
                   !.samples.modified = PushSample(@, filePath)]
    ELSE IF indexStatus = "D"
    THEN [s EXCEPT !.staged.deleted = @ + 1,
                   !.samples.deleted = PushSample(@, filePath)]
    ELSE IF indexStatus \in {"R", "C"}
    THEN [s EXCEPT !.staged.renamed = @ + 1,
                   !.samples.renamed = PushSample(@, RenameSample(origPath, filePath))]
    ELSE s

\* the "Staged changes" chain on indexStatus
StagedChange(s, indexStatus, filePath, origPath) ==
    IF indexStatus = "A"
    THEN [s EXCEPT !.staged.added = @ + 1,
                   !.samples.added = PushSample(@, filePath)]
    ELSE IF indexStatus = "M"
    THEN [s EXCEPT !.staged.modified = @ + 1,
                   !.samples.modified = PushSample(@, filePath)]
    ELSE IF indexStatus = "D"
    THEN [s EXCEPT !.staged.deleted = @ + 1,
                   !.samples.deleted = PushSample(@, filePath)]
    ELSE IF indexStatus = "R"
    THEN [s EXCEPT !.staged.renamed = @ + 1,
                   !.samples.renamed = PushSample(@, RenameSample(origPath, filePath))]
    ELSE IF indexStatus = "C"
    THEN [s EXCEPT !.staged.copied = @ + 1,
                   !.samples.renamed = PushSample(@, RenameSample(origPath, filePath))]
    ELSE s

\* mutant of UnstagedChange: the sample is stored, the counter is forgotten
UnstagedChange_NoCount(s, worktreeStatus, filePath) ==
    IF worktreeStatus = "M"
    THEN [s EXCEPT !.samples.modified = PushSample(@, filePath)]
    ELSE IF worktreeStatus = "D"
    THEN [s EXCEPT !.samples.deleted = PushSample(@, filePath)]
    ELSE s

\* the "Unstaged changes" chain on worktreeStatus
UnstagedChange(s, worktreeStatus, filePath) ==
    IF worktreeStatus = "M"
    THEN [s EXCEPT !.unstaged.modified = @ + 1,
                   !.samples.modified = PushSample(@, filePath)]
    ELSE IF worktreeStatus = "D"
    THEN [s EXCEPT !.unstaged.deleted = @ + 1,
                   !.samples.deleted = PushSample(@, filePath)]
    ELSE s

\* mutant of ChangedLine: the length of the XY field is not tested
ChangedLine_NoXYCheck(s, line) ==
    LET parts == SplitWhitespace(line)
    IN  IF Len(parts) < 2 THEN s
        ELSE LET xy             == parts[2]
                 indexStatus    == CharAt(xy, 1)
                 worktreeStatus == CharAt(xy, 2)
                 filePath       == parts[Len(parts)]
                 origPath       ==
                     IF CharAt(line, 1) = "2" /\ Len(parts) >= 3
                     THEN <<parts[Len(parts) - 1]>>
                     ELSE <<>>
             IN  UnstagedChange(
                     StagedChange(s, indexStatus, filePath, origPath),
                     worktreeStatus, filePath)

\* type === '1' || type === '2'
ChangedLine(s, line) ==
    LET parts == SplitWhitespace(line)
    IN  IF Len(parts) < 2 THEN s
        ELSE LET xy == parts[2]
             IN  IF xy = "" \/ Len(xy) < 2 THEN s
                 ELSE LET indexStatus    == CharAt(xy, 1)
                          worktreeStatus == CharAt(xy, 2)
                          filePath       == parts[Len(parts)]
                          origPath       ==
                              IF CharAt(line, 1) = "2" /\ Len(parts) >= 3
                              THEN Some(parts[Len(parts) - 1])
                              ELSE Null
                      IN  UnstagedChange(
                              StagedChange(s, indexStatus, filePath, origPath),
                              worktreeStatus, filePath)

\* which branch of the loop body handles a line
LineKind(line) ==
    IF StartsWith(line, "# ") THEN "header"
    ELSE IF CharAt(line, 1) = "?" THEN "untracked"
    ELSE IF CharAt(line, 1) = "!" THEN "ignored"
    ELSE IF CharAt(line, 1) = "u" THEN "conflict"
    ELSE IF CharAt(line, 1) \in {"1", "2"} THEN "changed"
    ELSE "other"

\* one iteration of the loop of parseStatus
ParseLine(s, line) ==
    CASE LineKind(line) = "header"    -> HeaderLine(s, line)
      [] LineKind(line) = "untracked" -> UntrackedLine(s, line)
      [] LineKind(line) = "conflict"  -> ConflictLine(s, line)
      [] LineKind(line) = "changed"   -> ChangedLine(s, line)
      [] OTHER                        -> s

\* parseStatus as a function of its text
RECURSIVE ParseLines(_, _)
ParseLines(s, ls) ==
    IF ls = <<>> THEN s ELSE ParseLines(ParseLine(s, Head(ls)), Tail(ls))

parseStatus(output) == ParseLines(EmptySummary, SplitLines(output))

----------------------------------------------------------------------------
(* getChangedFiles *)

\* Set.prototype.add on a Set kept in insertion order
SetAdd(fs, f) == IF \E i \in 1..Len(fs) : fs[i] = f THEN fs ELSE Append(fs, f)

RECURSIVE AddAll(_, _)
AddAll(fs, list) ==
    IF list = <<>> THEN fs ELSE AddAll(SetAdd(fs, Head(list)), Tail(list))

\* the characters the regular expression's . matches
IsDot(c) == c \notin {"\n", "\r"}

AllDot(s) == \A i \in 1..Len(s) : IsDot(CharAt(s, i))

\* a match of /^(.+?)\s*->\s*(.+)$/ whose first group has k characters:
\* <<match[1], match[2]>>, or <<>> when there is none
RenameMatchAt(f, k) ==
    LET p == SkipSpace(f, k + 1)
    IN  IF ~AllDot(SubSeq(f, 1, k)) \/ Substring(f, p, p + 1) # "->" THEN <<>>
        ELSE LET q == SkipSpace(f, p + 2)
             IN  IF q <= Len(f)
                 THEN IF AllDot(SubSeq(f, q, Len(f)))
                      THEN <<SubSeq(f, 1, k), SubSeq(f, q, Len(f))>>
                      ELSE <<>>
                 ELSE IF q > p + 2 /\ IsDot(CharAt(f, Len(f)))
                      THEN <<SubSeq(f, 1, k), CharAt(f, Len(f))>>
                      ELSE <<>>

\* f.match(/^(.+?)\s*->\s*(.+)$/): the first group is the shortest possible
RECURSIVE RenameMatchFrom(_, _)
RenameMatchFrom(f, k) ==
    IF k > Len(f) THEN <<>>
    ELSE IF RenameMatchAt(f, k) # <<>> THEN RenameMatchAt(f, k)
    ELSE RenameMatchFrom(f, k + 1)

RenameMatch(f) == RenameMatchFrom(f, 1)

\* the callback of summary.samples.renamed.forEach
AddRenamed(fs, f) ==
    LET match == RenameMatch(f)
    IN  IF match # <<>> THEN SetAdd(SetAdd(fs, match[1]), match[2])
        ELSE SetAdd(fs, f)

RECURSIVE AddAllRenamed(_, _)
AddAllRenamed(fs, list) ==
    IF list = <<>> THEN fs
    ELSE AddAllRenamed(AddRenamed(fs, Head(list)), Tail(list))

getChangedFiles(s, so) ==
    IF so
    THEN AddAllRenamed(
             AddAll(AddAll(AddAll(<<>>, s.samples.added), s.samples.modified),
                    s.samples.deleted),
             s.samples.renamed)
    ELSE AddAllRenamed(
             AddAll(<<>>, s.samples.added \o s.samples.modified
                          \o s.samples.deleted \o s.samples.untracked),
             s.samples.renamed)

----------------------------------------------------------------------------
(* buildSimpleMessage *)

DigitChar(d) ==
    CASE d = 0 -> "0" [] d = 1 -> "1" [] d = 2 -> "2" [] d = 3 -> "3"
      [] d = 4 -> "4" [] d = 5 -> "5" [] d = 6 -> "6" [] d = 7 -> "7"
      [] d = 8 -> "8" [] d = 9 -> "9"

RECURSIVE NatToString(_)
NatToString(n) ==
    IF n < 10 THEN DigitChar(n)
    ELSE NatToString(n \div 10) \o DigitChar(n % 10)

\* `${n}` for an integer n
NumToString(n) == IF n < 0 THEN "-" \o NatToString(0 - n) ELSE NatToString(n)

\* Array.prototype.join
RECURSIVE Join(_, _)
Join(list, sep) ==
    IF list = <<>> THEN ""
    ELSE IF Len(list) = 1 THEN list[1]
    ELSE list[1] \o sep \o Join(Tail(list), sep)

\* stands for the character U+2014 of the title, which a TLA+ string cannot hold
EmDash == "--"

\* mutant of plural: the count is left out
plural_WordOnly(n, word) == word \o (IF n = 1 THEN "" ELSE "s")

\* utils.plural
plural(n, word) ==
    NumToString(n) \o " " \o word \o (IF n = 1 THEN "" ELSE "s")

\* mutant of AddPart: a part is pushed for a zero count too
AddPart_ZeroToo(parts, n, label) == Append(parts, plural(n, label))

\* addPart: the parts after one more call
AddPart(parts, n, label) ==
    IF n > 0 THEN Append(parts, plural(n, label)) ELSE parts

\* const includeStaged
IncludeStaged(s, so) ==
    so \/ s.staged.added + s.staged.modified + s.staged.deleted
          + s.staged.renamed + s.staged.copied > 0

StagedParts(s, so) ==
    IF IncludeStaged(s, so)
    THEN AddPart(AddPart(AddPart(AddPart(<<>>,
             s.staged.added, "added"),
             s.staged.modified, "modified"),
             s.staged.deleted, "deleted"),
             s.staged.renamed + s.staged.copied, "renamed")
    ELSE <<>>

\* const parts, once both blocks of addPart calls have run
TitleParts(s, so) ==
    IF ~so
    THEN AddPart(AddPart(AddPart(AddPart(StagedParts(s, so),
             s.unstaged.modified, "modified (unstaged)"),
             s.unstaged.deleted, "deleted (unstaged)"),
             s.untracked, "untracked"),
             s.conflicts, "conflict")
    ELSE StagedParts(s, so)

\* mutant of TitleCore: the 'no changes' fallback is missing
TitleCore_NoFallback(s, so) == Join(TitleParts(s, so), ", ")

\* const titleCore
TitleCore(s, so) ==
    IF Len(TitleParts(s, so)) > 0 THEN Join(TitleParts(s, so), ", ")
    ELSE "no changes"

\* const title
Title(s, so) ==
    LET scope == IF s.branch # Null /\ s.branch[1] # ""
                 THEN "on " \o s.branch[1] ELSE ""
        ab    == IF s.ahead # 0 \/ s.behind # 0
                 THEN ", ahead " \o NumToString(s.ahead)
                      \o ", behind " \o NumToString(s.behind)
                 ELSE ""
    IN  TitleCore(s, so)
        \o (IF scope # "" THEN " " \o EmDash \o " " \o scope ELSE "")
        \o ab

\* const limitList
LimitList(list) ==
    IF Len(list) > MAX_FILE_SAMPLES
    THEN [list |-> SubSeq(list, 1, MAX_FILE_SAMPLES),
          more |-> Len(list) - MAX_FILE_SAMPLES]
    ELSE [list |-> list, more |-> 0]

\* one line of the body: `${label}: ${l.list.join(', ')}${l.more ? ...}`
BodyLine(label, l) ==
    label \o ": " \o Join(l.list, ", ")
    \o (IF l.more # 0 THEN " (+" \o NumToString(l.more) \o " more)" ELSE "")

\* mutant of AddBodyLine: a line is pushed for an empty list too
AddBodyLine_EmptyToo(bodyParts, label, l) == Append(bodyParts, BodyLine(label, l))

AddBodyLine(bodyParts, label, l) ==
    IF Len(l.list) > 0 THEN Append(bodyParts, BodyLine(label, l)) ELSE bodyParts

\* const bodyParts, once every push has run
BodyParts(s, so) ==
    LET staged == AddBodyLine(AddBodyLine(AddBodyLine(AddBodyLine(<<>>,
                      "added", LimitList(s.samples.added)),
                      "modified", LimitList(s.samples.modified)),
                      "deleted", LimitList(s.samples.deleted)),
                      "renamed", LimitList(s.samples.renamed))
    IN  IF ~so THEN AddBodyLine(staged, "untracked", LimitList(s.samples.untracked))
        ELSE staged

buildSimpleMessage(s, so) ==
    IF Len(BodyParts(s, so)) > 0
    THEN Title(s, so) \o "\n\n" \o Join(BodyParts(s, so), "\n")
    ELSE Title(s, so)

----------------------------------------------------------------------------
(* The status texts of the model *)

\* records of porcelain v2 output with their line terminator, well-formed and
\* malformed; a mixed text is a concatenation of at most MaxLines of them
Pool ==
    { "# branch.head main\n",
      "# branch.ab +2 -1\n",
      "# branch.ab +10 -0\n",
      "# branch.ab +-3 --5\n",
      "# branch.ab x+4  -0y\n",
      "# branch.ab junk\n",
      "# branch.oid abc123\n",
      "#nospace\n",
      "1 A. N... 100644 100644 100644 0000 abc123 file.txt\n",
      "1 MM N... both.c\r\n",
      "1 .M N... work.c\n",
      "1 .D N... gone.c\n",
      "1 D. N... del.c\n",
      "1 R. N... ren.c\n",
      "1 M. N... tail.c \n",
      "1 A\n",
      "1\n",
      "2 R. N... R100 old.js new.js\n",
      "2 C. N... C100 src.js dst.js\n",
      "2 M. N... R100 two.c\n",
      "2 R. solo.c\n",
      "? new.txt\n",
      "?\n",
      "! build.log\n",
      "u UU N... clash.c\n",
      "x junk\n",
      "\n" }

\* pairs of records that feed one sample bucket or one counter; a long text
\* repeats the first and then the second, MaxRun lines at most
LongPairs ==
    { <<"1 A. N... a1.c\n", "1 A. N... a2.c\n">>,
      <<"1 MM N... both.c\n", "1 .M N... work.c\n">>,
      <<"1 D. N... del.c\n", "1 .D N... gone.c\n">>,
      <<"2 R. N... R100 old.js new.js\n", "2 C. N... C100 src.js dst.js\n">>,
      <<"? new.txt\n", "? more.txt\n">>,
      <<"u UU N... clash.c\n", "1 A. N... a1.c\n">>,
      <<"2 R. N... R100 a->b c.js\n", "1 R. N... x->y\n">> }

RECURSIVE Concats(_)
Concats(n) ==
    IF n = 0 THEN {""}
    ELSE Concats(n - 1) \cup {t \o c : t \in Concats(n - 1), c \in Pool}

RECURSIVE Repeat(_, _)
Repeat(s, n) == IF n = 0 THEN "" ELSE s \o Repeat(s, n - 1)

\* i copies of a followed by j copies of b, i + j <= MaxRun
LongTextsOf(a, b) ==
    UNION { { Repeat(a, i) \o Repeat(b, j) : j \in 0..(MaxRun - i) } :
            i \in 0..MaxRun }

LongTexts ==
    UNION { LongTextsOf(pr[1], pr[2]) \cup LongTextsOf(pr[2], pr[1]) :
            pr \in LongPairs }

\* the status texts of the README's simple-mode example and of the test
\* 'builds message for staged changes'
ExampleTexts ==
    { "# branch.head feature/auth\n# branch.ab +1 -0\n"
      \o "1 A. N... src/auth.js\n1 A. N... src/login.js\n"
      \o "1 M. N... src/app.js\n1 M. N... src/utils.js\n1 M. N... README.md\n",
      "# branch.head main\n"
      \o "1 A. N... file1.js\n1 A. N... file2.js\n1 M. N... file3.js\n" }

Texts == Concats(MaxLines) \cup LongTexts \cup ExampleTexts

----------------------------------------------------------------------------
(* The run: parseStatus line by line, then getChangedFiles and             *)
(* buildSimpleMessage on the summary it returned                           *)

\* getDiff is not running
DiffIdle ==
    /\ dFiles = <<>>
    /\ dStaged = FALSE
    /\ dpc = "idle"
    /\ gitOut = [cached |-> Null, worktree |-> Null]
    /\ gitArgs = <<>>
    /\ diffOutput = <<>>
    /\ dResult = Null

\* truncate is not running
TruncIdle ==
    /\ tStr = ""
    /\ tMax = 0
    /\ tpc = "idle"
    /\ tResult = ""

\* no Logger is in use
LogIdle ==
    /\ lArg = ""
    /\ lVerbose = FALSE
    /\ lLevel = 0
    /\ lpc = "idle"
    /\ lCalls = <<>>
    /\ lEmitted = <<>>

\* retry is not called
RetryIdle ==
    /\ rMax = 0
    /\ rDelay = 0
    /\ rAttempt = 0
    /\ rpc = "idle"
    /\ rErr = Null
    /\ rLastError = Null
    /\ rLog = <<>>
    /\ rResult = Null

\* generateWithGemini is not called
GenIdle ==
    /\ gApi = {}
    /\ gCache = <<>>
    /\ gNow = 0
    /\ gCallNo = 0
    /\ gIn = Null
    /\ gpc = "idle"
    /\ gModels = <<>>
    /\ gIdx = 0
    /\ gAttempt = 0
    /\ gLastError = Null
    /\ gResult = Null
    /\ gTried = <<>>
    /\ gOps = <<>>
    /\ gGenerated = <<>>

\* buildPromptFromTemplate is not called
PromptIdle ==
    /\ pSummary = EmptySummary
    /\ pDiff = ""
    /\ pFiles = <<>>
    /\ pStagedOnly = FALSE
    /\ ppc = "idle"
    /\ pPrompt = ""

\* the library functions other than x are not running
LibIdleExcept(x) ==
    /\ IF x = "Diff" THEN TRUE ELSE DiffIdle
    /\ IF x = "Trunc" THEN TRUE ELSE TruncIdle
    /\ IF x = "Log" THEN TRUE ELSE LogIdle
    /\ IF x = "Retry" THEN TRUE ELSE RetryIdle
    /\ IF x = "Gen" THEN TRUE ELSE GenIdle
    /\ IF x = "Prompt" THEN TRUE ELSE PromptIdle

\* no library function is run on its own
LibIdle == LibIdleExcept("")

\* the main command is not running
MainIdle ==
    /\ opts = [stagedOnly |-> FALSE, commit |-> FALSE, simple |-> FALSE,
               verbose |-> FALSE]
    /\ env = [hasConfig |-> FALSE, GEMINI_API_KEY |-> FALSE,
              insideRepo |-> FALSE, DEBUG |-> FALSE]
    /\ mpc = "idle"
    /\ diff = ""
    /\ out = <<>>
    /\ errOut = <<>>
    /\ exitCode = Null
    /\ calls = <<>>

Init ==
    /\ text \in Texts
    /\ lines = <<>>
    /\ idx = 0
    /\ summary = EmptySummary
    /\ prev = EmptySummary
    /\ pc = "start"
    /\ stagedOnly = FALSE
    /\ files = <<>>
    /\ message = ""
    /\ MainIdle
    /\ LibIdle

\* parseStatus is entered: the text is split and the summary initialised
Split ==
    /\ pc = "start"
    /\ lines' = SplitLines(text)
    /\ idx' = 1
    /\ summary' = EmptySummary
    /\ prev' = EmptySummary
    /\ pc' = "loop"
    /\ UNCHANGED <<text, stagedOnly, files, message, mainVars>>

\* the loop body on lines[idx], when LineKind selects branch kind
Step(kind, after) ==
    /\ pc = "loop"
    /\ idx <= Len(lines)
    /\ LineKind(lines[idx]) = kind
    /\ prev' = summary
    /\ summary' = after
    /\ idx' = idx + 1
    /\ UNCHANGED <<text, lines, pc, stagedOnly, files, message, mainVars>>

ParseHeader == Step("header", HeaderLine(summary, lines[idx]))

ParseUntracked == Step("untracked", UntrackedLine(summary, lines[idx]))

\* if (type === '!') continue
ParseIgnored == Step("ignored", summary)

ParseConflict == Step("conflict", ConflictLine(summary, lines[idx]))

ParseChanged == Step("changed", ChangedLine(summary, lines[idx]))

\* no branch of the loop body applies
ParseOther == Step("other", summary)

\* return summary
Return ==
    /\ pc = "loop"
    /\ idx > Len(lines)
    /\ pc' = "parsed"
    /\ UNCHANGED <<text, lines, idx, summary, prev, stagedOnly, files, message,
                   mainVars>>

CallGetChangedFiles ==
    /\ pc = "parsed"
    /\ \E so \in BOOLEAN :
          /\ stagedOnly' = so
          /\ files' = getChangedFiles(summary, so)
    /\ pc' = "files"
    /\ UNCHANGED <<text, lines, idx, summary, prev, message, mainVars>>

CallBuildSimpleMessage ==
    /\ pc = "files"
    /\ message' = buildSimpleMessage(summary, stagedOnly)
    /\ pc' = "done"
    /\ UNCHANGED <<text, lines, idx, summary, prev, stagedOnly, files, mainVars>>

Next ==
    \/ Split
    \/ ParseHeader
    \/ ParseUntracked
    \/ ParseIgnored
    \/ ParseConflict
    \/ ParseChanged
    \/ ParseOther
    \/ Return
    \/ CallGetChangedFiles
    \/ CallBuildSimpleMessage

Spec == Init /\ [][Next]_vars

----------------------------------------------------------------------------
(* The main command of bin/gcm: one run of its action, step by step.  The  *)
(* spinner's own writes to the terminal are left out; the line it logs     *)
(* when it stops is in out.                                                 *)

\* stand for the characters U+2713, U+2717 and U+2500 of the output
Tick == "v"

Cross == "x"

Rule == Repeat("-", 72)

\* the status texts git may return to the main command
MainTexts ==
    { "",
      "# branch.head main\n",
      "# branch.head main\n# branch.ab +2 -1\n",
      "# branch.head main\n"
      \o "1 A. N... file1.js\n1 A. N... file2.js\n1 M. N... file3.js\n",
      "1 .M N... work.c\n",
      "? new.txt\n",
      "u UU N... clash.c\n" }

\* what generateWithGemini may return
AiMessages == {"feat: add login"}

\* what generateWithGemini may throw
AiErrors ==
    { [type |-> "APIError",
       message |-> "Gemini API quota exceeded or rate limited. "
                   \o "Please try again later or use --simple flag."],
      [type |-> "Error", message |-> "fetch failed"] }

\* what getDiff may return for a non-empty file list
Diffs == {"", "diff --git a/file1.js b/file1.js"}

\* the exit status after Ctrl+C at the prompt: readline closes and the
\* process ends, or the signal ends the process
CancelCodes == {0, 130}

Call(fn, arg, res) == [fn |-> fn, arg |-> arg, res |-> res]

\* withProgress: the line logged when the spinner stops
Done(label) == Tick \o " " \o label

Failed(label) == Cross \o " " \o label \o " failed"

\* the catch block of the action: what it writes for error e
OuterCatch(e) ==
    << "ERROR: "
       \o (IF e.type = "GitError" THEN "Git error: "
           ELSE IF e.type = "ConfigError" THEN "Config error: "
           ELSE "Error: ")
       \o e.message >>
    \o (IF env.DEBUG THEN <<"stack of " \o e.type>> ELSE <<>>)

\* const hasChanges
HasChanges(s, o) ==
    \/ s.staged.added + s.staged.modified + s.staged.deleted
       + s.staged.renamed + s.staged.copied > 0
    \/ /\ ~o.stagedOnly
       /\ s.unstaged.modified + s.unstaged.deleted + s.untracked > 0

\* const hasApiKey
HasApiKey == env.hasConfig \/ env.GEMINI_API_KEY

\* the variables of the pipeline that the main command does not use
parked == <<text, lines, idx, prev, pc, stagedOnly, libVars>>

MainInit ==
    /\ text \in MainTexts
    /\ lines = <<>>
    /\ idx = 0
    /\ summary = EmptySummary
    /\ prev = EmptySummary
    /\ pc = "main"
    /\ stagedOnly = FALSE
    /\ files = <<>>
    /\ message = ""
    /\ opts \in [stagedOnly : BOOLEAN, commit : BOOLEAN, simple : BOOLEAN,
                 verbose : BOOLEAN]
    /\ env \in [hasConfig : BOOLEAN, GEMINI_API_KEY : BOOLEAN,
                insideRepo : BOOLEAN, DEBUG : BOOLEAN]
    /\ mpc = "start"
    /\ diff = ""
    /\ out = <<>>
    /\ errOut = <<>>
    /\ exitCode = Null
    /\ calls = <<>>
    /\ LibIdle

\* if (!opts.simple && !hasConfig() && !process.env.GEMINI_API_KEY)
CheckConfig ==
    /\ mpc = "start"
    /\ IF ~opts.simple /\ ~env.hasConfig /\ ~env.GEMINI_API_KEY
       THEN /\ errOut' = errOut \o
                   << "Error: API key not configured.",
                      "",
                      "Before using AI-powered commit messages, "
                      \o "you must configure your API key:",
                      "  1. Get your API key from: "
                      \o "https://aistudio.google.com/apikey",
                      "  2. Run: gcm config set",
                      "  3. Enter your API key when prompted",
                      "",
                      "Alternatively, use --simple flag for basic "
                      \o "message format without AI." >>
            /\ exitCode' = Some(1)
            /\ mpc' = "exited"
       ELSE /\ mpc' = "repo"
            /\ UNCHANGED <<errOut, exitCode>>
    /\ UNCHANGED <<parked, summary, files, message, opts, env, diff, out, calls>>

\* if (!isInsideRepo())
CheckRepo ==
    /\ mpc = "repo"
    /\ IF ~env.insideRepo
       THEN /\ errOut' = errOut \o
                   << "Error: Not a git repository",
                      "Run this command from within a git repository." >>
            /\ exitCode' = Some(1)
            /\ mpc' = "exited"
       ELSE /\ mpc' = "status"
            /\ UNCHANGED <<errOut, exitCode>>
    /\ UNCHANGED <<parked, summary, files, message, opts, env, diff, out, calls>>

\* getStatus, parseStatus and the hasChanges check
GetStatus ==
    /\ mpc = "status"
    /\ \/ LET s == parseStatus(text)
          IN  /\ calls' = calls \o << Call("getStatus", "", "ok"),
                                      Call("parseStatus", "", "ok") >>
              /\ summary' = s
              /\ IF ~HasChanges(s, opts)
                 THEN /\ out' = out \o
                             << Done("Analyzing git status..."),
                                IF opts.stagedOnly
                                THEN "No staged changes to commit."
                                ELSE "No changes detected. "
                                     \o "Working tree is clean." >>
                      /\ exitCode' = Some(0)
                      /\ mpc' = "exited"
                 ELSE /\ out' = Append(out, Done("Analyzing git status..."))
                      /\ mpc' = "generate"
                      /\ UNCHANGED exitCode
              /\ UNCHANGED errOut
       \/ LET e == [type |-> "GitError", message |-> "fatal: index file corrupt"]
          IN  /\ calls' = Append(calls, Call("getStatus", "", "threw"))
              /\ out' = Append(out, Failed("Analyzing git status..."))
              /\ errOut' = errOut \o OuterCatch(e)
              /\ exitCode' = Some(1)
              /\ mpc' = "exited"
              /\ UNCHANGED summary
    /\ UNCHANGED <<parked, files, message, opts, env, diff>>

\* if (opts.simple || !hasApiKey): the simple format
UseSimple ==
    /\ mpc = "generate"
    /\ opts.simple \/ ~HasApiKey
    /\ errOut' = errOut \o
           (IF opts.verbose /\ ~opts.simple
            THEN << "WARN: API key not configured, using simple message format.",
                    "Run \"gcm config set\" to configure your API key." >>
            ELSE <<>>)
    /\ message' = buildSimpleMessage(summary, opts.stagedOnly)
    /\ calls' = Append(calls, Call("buildSimpleMessage", "", "ok"))
    /\ out' = Append(out, Done("Generating commit message..."))
    /\ mpc' = "print"
    /\ UNCHANGED <<parked, summary, files, opts, env, diff, exitCode>>

\* else: const files
CollectFiles ==
    /\ mpc = "generate"
    /\ ~(opts.simple \/ ~HasApiKey)
    /\ files' = getChangedFiles(summary, opts.stagedOnly)
    /\ calls' = Append(calls, Call("getChangedFiles", "", "ok"))
    /\ out' = Append(out, Done("Collecting changed files..."))
    /\ mpc' = "diff"
    /\ UNCHANGED <<parked, summary, message, opts, env, diff, errOut, exitCode>>

\* const diff; getDiff returns '' for no files and when git diff fails
CollectDiff ==
    /\ mpc = "diff"
    /\ diff' \in (IF files = <<>> THEN {""} ELSE Diffs)
    /\ calls' = Append(calls, Call("getDiff", "", "ok"))
    /\ out' = Append(out, Done("Collecting git diffs..."))
    /\ mpc' = "ai"
    /\ UNCHANGED <<parked, summary, files, message, opts, env, errOut, exitCode>>

\* mutant of GenerateAI: the error of generateWithGemini ends the run
GenerateAI_NoFallback ==
    /\ mpc = "ai"
    /\ \/ \E m \in AiMessages :
             /\ message' = m
             /\ calls' = Append(calls, Call("generateWithGemini", "", "ok"))
             /\ out' = Append(out, Done("Generating commit message with AI..."))
             /\ mpc' = "print"
             /\ UNCHANGED <<errOut, exitCode>>
       \/ \E e \in AiErrors :
             /\ calls' = Append(calls, Call("generateWithGemini", "", "threw"))
             /\ out' = Append(out, Failed("Generating commit message with AI..."))
             /\ errOut' = errOut \o OuterCatch(e)
             /\ exitCode' = Some(1)
             /\ mpc' = "exited"
             /\ UNCHANGED message
    /\ UNCHANGED <<parked, summary, files, opts, env, diff>>

\* message = generateWithGemini(...), and the catch block that falls back to
\* buildSimpleMessage
GenerateAI ==
    /\ mpc = "ai"
    /\ \/ \E m \in AiMessages :
             /\ message' = m
             /\ calls' = Append(calls, Call("generateWithGemini", "", "ok"))
             /\ out' = Append(out, Done("Generating commit message with AI..."))
             /\ UNCHANGED errOut
       \/ \E e \in AiErrors :
             /\ errOut' = errOut
                    \o <<"ERROR: Error generating AI message: " \o e.message>>
                    \o (IF opts.verbose
                        THEN <<"Falling back to simple message format...">>
                        ELSE <<>>)
             /\ message' = buildSimpleMessage(summary, opts.stagedOnly)
             /\ calls' = calls \o << Call("generateWithGemini", "", "threw"),
                                     Call("buildSimpleMessage", "", "ok") >>
             /\ out' = out \o
                    << Failed("Generating commit message with AI..."),
                       Done("Generating simple commit message...") >>
    /\ mpc' = "print"
    /\ UNCHANGED <<parked, summary, files, opts, env, diff, exitCode>>

\* console.log(message); without --commit the action ends here
PrintMessage ==
    /\ mpc = "print"
    /\ out' = Append(out, message)
    /\ IF opts.commit
       THEN /\ mpc' = "stage"
            /\ UNCHANGED exitCode
       ELSE /\ mpc' = "exited"
            /\ exitCode' = Some(0)
    /\ UNCHANGED <<parked, summary, files, message, opts, env, diff, errOut, calls>>

\* mutant of StageAll: a failure of stageAll is ignored
StageAll_IgnoresFailure ==
    /\ mpc = "stage"
    /\ \E res \in {"ok", "threw"} :
          calls' = Append(calls, Call("stageAll", "", res))
    /\ out' = out \o << Done("Staging all changes..."), "",
                        "Generated commit message:", Rule, message,
                        Rule, "" >>
    /\ mpc' = "confirm"
    /\ UNCHANGED <<errOut, exitCode>>
    /\ UNCHANGED <<parked, summary, files, message, opts, env, diff>>

\* stageAll, then the message is shown again
StageAll ==
    /\ mpc = "stage"
    /\ \/ /\ calls' = Append(calls, Call("stageAll", "", "ok"))
          /\ out' = out \o << Done("Staging all changes..."), "",
                              "Generated commit message:", Rule, message,
                              Rule, "" >>
          /\ mpc' = "confirm"
          /\ UNCHANGED <<errOut, exitCode>>
       \/ LET e == [type |-> "GitError", message |-> "Failed to stage changes"]
          IN  /\ calls' = Append(calls, Call("stageAll", "", "threw"))
              /\ out' = Append(out, Failed("Staging all changes..."))
              /\ errOut' = errOut \o OuterCatch(e)
              /\ exitCode' = Some(1)
              /\ mpc' = "exited"
    /\ UNCHANGED <<parked, summary, files, message, opts, env, diff>>

\* rl.question: Enter runs the callback that commits; Ctrl+C ends the run.
\* An error of commit is thrown inside the callback, outside the try block.
Confirm ==
    /\ mpc = "confirm"
    /\ \/ \E ok \in BOOLEAN :
             /\ calls' = calls \o
                    << Call("rl.question", "enter", "ok"),
                       Call("commit", message, IF ok THEN "ok" ELSE "threw") >>
             /\ errOut' = errOut
                    \o (IF opts.verbose THEN <<"Committing changes...">> ELSE <<>>)
                    \o (IF ok THEN <<>> ELSE <<"Uncaught GitError: Commit failed">>)
             /\ exitCode' = Some(IF ok THEN 0 ELSE 1)
       \/ /\ \E code \in CancelCodes : exitCode' = Some(code)
          /\ calls' = Append(calls, Call("rl.question", "ctrl-c", "ok"))
          /\ UNCHANGED errOut
    /\ mpc' = "exited"
    /\ UNCHANGED <<parked, summary, files, message, opts, env, diff, out>>

MainNext ==
    \/ CheckConfig
    \/ CheckRepo
    \/ GetStatus
    \/ UseSimple
    \/ CollectFiles
    \/ CollectDiff
    \/ GenerateAI
    \/ PrintMessage
    \/ StageAll
    \/ Confirm

SpecMain == MainInit /\ [][MainNext]_vars

----------------------------------------------------------------------------
(* Vocabulary of the properties, stated on the lines themselves and not    *)
(* through the operators that model parseStatus                            *)

\* the lines the loop has handled so far
Handled == SubSeq(lines, 1, idx - 1)

\* a line has just been handled: it is LastLine, and prev is the summary before
AfterLine == pc = "loop" /\ idx > 1

LastLine == lines[idx - 1]

Fields(l) == SplitWhitespace(l)

LastField(l) == Fields(l)[Len(Fields(l))]

\* a '1' or '2' line that carries an XY code of at least two characters
IsEntry(l) ==
    /\ CharAt(l, 1) \in {"1", "2"}
    /\ Len(Fields(l)) >= 2
    /\ Len(Fields(l)[2]) >= 2

XOf(l) == CharAt(Fields(l)[2], 1)

YOf(l) == CharAt(Fields(l)[2], 2)

HasX(l, x) == IsEntry(l) /\ XOf(l) = x

HasY(l, y) == IsEntry(l) /\ YOf(l) = y

\* a kind-'2' line with at least three fields
IsPair(l) == CharAt(l, 1) = "2" /\ Len(Fields(l)) >= 3

\* '<second-to-last field> -> <last field>'
PairText(l) == Fields(l)[Len(Fields(l)) - 1] \o " -> " \o LastField(l)

\* the text of a '?' line after the marker and one separating character
UntrackedPath(l) == SubSeq(l, 3, Len(l))

\* number of handled lines that satisfy P
CountLines(P(_)) == Cardinality({i \in 1..(idx - 1) : P(lines[i])})

\* a sample list after one more record, under the cap of 10
Capped(list, item) == IF Len(list) >= 10 THEN list ELSE list \o <<item>>

\* the first 10 entries of a sequence
FirstTen(seq) == SubSeq(seq, 1, IF Len(seq) > 10 THEN 10 ELSE Len(seq))

\* what the handled lines record, in line order, for each bucket
RECURSIVE Recorded(_, _)
Recorded(bucket, ls) ==
    IF ls = <<>> THEN <<>>
    ELSE LET l == ls[Len(ls)]
             sample == IF IsPair(l) THEN PairText(l) ELSE LastField(l)
             own ==
                 CASE bucket = "added" ->
                          IF HasX(l, "A") THEN <<LastField(l)>> ELSE <<>>
                   [] bucket = "modified" ->
                          (IF HasX(l, "M") THEN <<LastField(l)>> ELSE <<>>)
                          \o (IF HasY(l, "M") THEN <<LastField(l)>> ELSE <<>>)
                   [] bucket = "deleted" ->
                          (IF HasX(l, "D") THEN <<LastField(l)>> ELSE <<>>)
                          \o (IF HasY(l, "D") THEN <<LastField(l)>> ELSE <<>>)
                   [] bucket = "renamed" ->
                          IF HasX(l, "R") \/ HasX(l, "C") THEN <<sample>> ELSE <<>>
                   [] bucket = "untracked" ->
                          IF CharAt(l, 1) = "?" THEN <<UntrackedPath(l)>> ELSE <<>>
         IN  Recorded(bucket, SubSeq(ls, 1, Len(ls) - 1)) \o own

Buckets == {"added", "modified", "deleted", "renamed", "untracked"}

\* s.samples[bucket]
Bucket(s, bucket) ==
    CASE bucket = "added"     -> s.samples.added
      [] bucket = "modified"  -> s.samples.modified
      [] bucket = "deleted"   -> s.samples.deleted
      [] bucket = "renamed"   -> s.samples.renamed
      [] bucket = "untracked" -> s.samples.untracked

\* every counter of s, in a fixed order
Counters(s) ==
    <<s.staged.added, s.staged.modified, s.staged.deleted, s.staged.renamed,
      s.staged.copied, s.unstaged.modified, s.unstaged.deleted, s.untracked,
      s.conflicts>>

----------------------------------------------------------------------------
(* C1 *)

\* C1 as stated: after parseStatus each of the counters staged.added,
\* staged.modified, unstaged.modified, staged.deleted, unstaged.deleted,
\* staged.renamed, staged.copied and untracked is at least the number of
\* entries of its sample bucket.  (Refuted: buckets are shared.)
C1_EachCounterCoversBucket ==
    pc = "parsed" =>
        /\ summary.staged.added >= Len(summary.samples.added)
        /\ summary.staged.modified >= Len(summary.samples.modified)
        /\ summary.unstaged.modified >= Len(summary.samples.modified)
        /\ summary.staged.deleted >= Len(summary.samples.deleted)
        /\ summary.unstaged.deleted >= Len(summary.samples.deleted)
        /\ summary.staged.renamed >= Len(summary.samples.renamed)
        /\ summary.staged.copied >= Len(summary.samples.renamed)
        /\ summary.untracked >= Len(summary.samples.untracked)

\* C1 amended: after parseStatus the counters that feed a sample bucket
\* together are at least the number of entries of that bucket: staged.added
\* for added, staged.modified + unstaged.modified for modified,
\* staged.deleted + unstaged.deleted for deleted, staged.renamed +
\* staged.copied for renamed, untracked for untracked.
C1_CountersCoverBucket ==
    pc = "parsed" =>
        /\ summary.staged.added >= Len(summary.samples.added)
        /\ summary.staged.modified + summary.unstaged.modified
               >= Len(summary.samples.modified)
        /\ summary.staged.deleted + summary.unstaged.deleted
               >= Len(summary.samples.deleted)
        /\ summary.staged.renamed + summary.staged.copied
               >= Len(summary.samples.renamed)
        /\ summary.untracked >= Len(summary.samples.untracked)

\* a parsed text whose modified bucket is full and was fed by both counters,
\* neither of which reaches the bucket's length alone
C1_Witness ==
    /\ pc = "parsed"
    /\ Len(summary.samples.modified) = 10
    /\ summary.staged.modified \in 1..9
    /\ summary.unstaged.modified \in 1..9

----------------------------------------------------------------------------
(* C2 *)

\* C2: every sample list holds at most 10 entries and is the prefix, in line
\* order, of what the lines record for its bucket; every counter is the exact
\* number of lines that match it; a record that arrives at a full bucket
\* increments its counter and leaves the bucket as it was.
C2_SamplesArePrefixCountsExact ==
    pc = "parsed" =>
        /\ \A b \in Buckets :
              /\ Len(Bucket(summary, b)) <= 10
              /\ Bucket(summary, b) = FirstTen(Recorded(b, Handled))
              /\ (idx > 1 /\ Len(Bucket(prev, b)) = 10)
                     => Bucket(summary, b) = Bucket(prev, b)
        /\ summary.staged.added = CountLines(LAMBDA l : HasX(l, "A"))
        /\ summary.staged.modified = CountLines(LAMBDA l : HasX(l, "M"))
        /\ summary.staged.deleted = CountLines(LAMBDA l : HasX(l, "D"))
        /\ summary.staged.renamed = CountLines(LAMBDA l : HasX(l, "R"))
        /\ summary.staged.copied = CountLines(LAMBDA l : HasX(l, "C"))
        /\ summary.unstaged.modified = CountLines(LAMBDA l : HasY(l, "M"))
        /\ summary.unstaged.deleted = CountLines(LAMBDA l : HasY(l, "D"))
        /\ summary.untracked = CountLines(LAMBDA l : CharAt(l, 1) = "?")
        /\ summary.conflicts = CountLines(LAMBDA l : CharAt(l, 1) = "u")

\* an eleventh staged addition has arrived at the full bucket, whose entries
\* are not all the same path
C2_Witness ==
    /\ pc = "parsed"
    /\ idx > 1
    /\ HasX(LastLine, "A")
    /\ Len(prev.samples.added) = 10
    /\ summary.staged.added = 11
    /\ summary.samples.added[1] # summary.samples.added[10]

----------------------------------------------------------------------------
(* C3 *)

\* C3: for any status text, also one with malformed '# branch.ab' lines,
\* every numeric field of the summary parseStatus returns (ahead, behind and
\* the nine counters) is a non-negative integer.
C3_AllNumbersNonNegative ==
    pc = "parsed" =>
        /\ summary.ahead \in Nat
        /\ summary.behind \in Nat
        /\ \A i \in 1..Len(Counters(summary)) : Counters(summary)[i] \in Nat

----------------------------------------------------------------------------
(* C4 *)

IsSeq(x) == DOMAIN x = 1..Len(x)

\* every field of a StatusSummary is there and holds a value of its kind
FullyPopulated(s) ==
    /\ DOMAIN s = {"branch", "ahead", "behind", "staged", "unstaged",
                   "untracked", "conflicts", "samples"}
    /\ DOMAIN s.staged = {"added", "modified", "deleted", "renamed", "copied"}
    /\ DOMAIN s.unstaged = {"modified", "deleted"}
    /\ DOMAIN s.samples = Buckets
    /\ IsSeq(s.branch) /\ Len(s.branch) <= 1
    /\ s.ahead \in Int /\ s.behind \in Int
    /\ \A i \in 1..Len(Counters(s)) : Counters(s)[i] \in Int
    /\ \A b \in Buckets : IsSeq(Bucket(s, b))

\* the lines C4 names as contributing nothing
C4_Unrecognised(l) ==
    \/ CharAt(l, 1) = "!"
    \/ CharAt(l, 1) \notin {"#", "?", "!", "u", "1", "2"}
    \/ /\ StartsWith(l, "# ")
       /\ ~StartsWith(l, "# branch.head ")
       /\ ~StartsWith(l, "# branch.ab ")
    \/ /\ CharAt(l, 1) \in {"1", "2"}
       /\ (Len(Fields(l)) < 2 \/ Len(Fields(l)[2]) < 2)

\* C4: parseStatus is total and a function of its text: in the loop some
\* branch always applies to the next line, the summary is fully populated at
\* every point, the summary returned is the one the text determines; and a
\* '!' line, a line whose first character is none of # ? ! u 1 2, a '# '
\* header other than branch.head/branch.ab, and a '1'/'2' line whose XY field
\* is missing or shorter than two characters leave the summary as it was.
C4_TotalAndIgnoresUnrecognised ==
    /\ (pc = "loop" /\ idx <= Len(lines))
           => LineKind(lines[idx]) \in {"header", "untracked", "ignored",
                                        "conflict", "changed", "other"}
    /\ FullyPopulated(summary)
    /\ (AfterLine /\ C4_Unrecognised(LastLine)) => summary = prev
    /\ pc = "parsed" => summary = parseStatus(text)

\* an unrecognised line has been handled after lines that did contribute
C4_Witness ==
    /\ AfterLine
    /\ C4_Unrecognised(LastLine)
    /\ CharAt(LastLine, 1) \in {"1", "2"}
    /\ prev # EmptySummary
    /\ summary = prev

----------------------------------------------------------------------------
(* C5 *)

Inc(c) == IF c THEN 1 ELSE 0

\* a '1' or '2' line with a two-character XY code
C5_Entry(l) == IsEntry(l) /\ Len(Fields(l)[2]) = 2

\* X and Y of line l select the counters that grow by one; nothing else of
\* the summary's numbers and branch changes
C5_CountersStep(l) ==
    /\ summary.staged.added = prev.staged.added + Inc(XOf(l) = "A")
    /\ summary.staged.modified = prev.staged.modified + Inc(XOf(l) = "M")
    /\ summary.staged.deleted = prev.staged.deleted + Inc(XOf(l) = "D")
    /\ summary.staged.renamed = prev.staged.renamed + Inc(XOf(l) = "R")
    /\ summary.staged.copied = prev.staged.copied + Inc(XOf(l) = "C")
    /\ summary.unstaged.modified = prev.unstaged.modified + Inc(YOf(l) = "M")
    /\ summary.unstaged.deleted = prev.unstaged.deleted + Inc(YOf(l) = "D")
    /\ summary.untracked = prev.untracked
    /\ summary.conflicts = prev.conflicts
    /\ summary.ahead = prev.ahead
    /\ summary.behind = prev.behind
    /\ summary.branch = prev.branch

\* each bucket receives one entry per counter of its own that grew, under
\* the cap; the renamed bucket receives renamedEntry, the others the path
C5_SamplesStep(l, renamedEntry) ==
    LET path == LastField(l)
        m1 == IF XOf(l) = "M" THEN Capped(prev.samples.modified, path)
              ELSE prev.samples.modified
        d1 == IF XOf(l) = "D" THEN Capped(prev.samples.deleted, path)
              ELSE prev.samples.deleted
    IN  /\ summary.samples.added =
               IF XOf(l) = "A" THEN Capped(prev.samples.added, path)
               ELSE prev.samples.added
        /\ summary.samples.modified =
               IF YOf(l) = "M" THEN Capped(m1, path) ELSE m1
        /\ summary.samples.deleted =
               IF YOf(l) = "D" THEN Capped(d1, path) ELSE d1
        /\ summary.samples.renamed =
               IF XOf(l) \in {"R", "C"}
               THEN Capped(prev.samples.renamed, renamedEntry)
               ELSE prev.samples.renamed
        /\ summary.samples.untracked = prev.samples.untracked

\* the example of C5: 'A.' with last field file.txt
C5_Example ==
    (pc = "parsed"
     /\ lines = <<"1 A. N... 100644 100644 100644 0000 abc123 file.txt">>)
    => /\ summary.staged.added = 1
       /\ \E i \in 1..Len(summary.samples.added) :
              summary.samples.added[i] = "file.txt"

\* C5 as stated: for a '1'/'2' line with a two-character XY, X and Y select
\* the counters that grow by exactly one, nothing else grows, and the line's
\* path is appended once per grown counter to that counter's bucket, under
\* the cap.  (Refuted: a rename/copy of a kind-'2' line appends
\* 'orig -> path', not the path.)
C5_PathAppendedPerCounter ==
    /\ (AfterLine /\ C5_Entry(LastLine))
           => /\ C5_CountersStep(LastLine)
              /\ C5_SamplesStep(LastLine, LastField(LastLine))
    /\ C5_Example

\* C5 amended: as stated, except that the entry appended to the renamed
\* bucket for X = R or C is '<second-to-last field> -> <path>' when the line
\* is of kind '2' with at least three fields (the path alone otherwise).
C5_SampleAppendedPerCounter ==
    /\ (AfterLine /\ C5_Entry(LastLine))
           => /\ C5_CountersStep(LastLine)
              /\ C5_SamplesStep(LastLine,
                     IF IsPair(LastLine) THEN PairText(LastLine)
                     ELSE LastField(LastLine))
    /\ C5_Example

\* an 'MM' line has grown both modified counters and put its path twice into
\* the modified bucket
C5_Witness ==
    /\ AfterLine
    /\ C5_Entry(LastLine)
    /\ Fields(LastLine)[2] = "MM"
    /\ summary.staged.modified = prev.staged.modified + 1
    /\ summary.unstaged.modified = prev.unstaged.modified + 1
    /\ Len(summary.samples.modified) = Len(prev.samples.modified) + 2

----------------------------------------------------------------------------
(* C6 *)

\* s is <int>: digits, with an optional minus sign before them
IsInt(s) ==
    LET d == IF StartsWith(s, "-") THEN SubSeq(s, 2, Len(s)) ELSE s
    IN  Len(d) >= 1 /\ \A i \in 1..Len(d) : IsDigit(CharAt(d, i))

AllSpace(s) == \A i \in 1..Len(s) : IsSpace(CharAt(s, i))

\* s holds the pattern '+<int> -<int>': a plus sign, an <int>, whitespace, a
\* minus sign, an <int>
HasAbPattern(s) ==
    \E i \in 1..Len(s) :
        /\ CharAt(s, i) = "+"
        /\ \E j \in (i + 1)..Len(s) :
              /\ IsInt(SubSeq(s, i + 1, j))
              /\ \E k \in (j + 2)..Len(s) :
                    /\ CharAt(s, k) = "-"
                    /\ AllSpace(SubSeq(s, j + 1, k - 1))
                    /\ \E m \in (k + 1)..Len(s) : IsInt(SubSeq(s, k + 1, m))

\* C6: a line '# branch.ab +a -b' with non-negative integers a and b sets
\* ahead = a and behind = b; a '# branch.ab ' line that does not hold the
\* pattern '+<int> -<int>' leaves ahead and behind as they were.
C6_AheadBehind ==
    AfterLine =>
        /\ \A a, b \in 0..MaxAb :
              LastLine = "# branch.ab +" \o NumToString(a) \o " -" \o NumToString(b)
                  => summary.ahead = a /\ summary.behind = b
        /\ (/\ StartsWith(LastLine, "# branch.ab ")
            /\ ~HasAbPattern(SubSeq(LastLine, 13, Len(LastLine))))
               => /\ summary.ahead = prev.ahead
                  /\ summary.behind = prev.behind

\* a '# branch.ab ' line without the pattern has been handled after a line
\* that set ahead and behind, and a well-formed line has set them
C6_Witness ==
    /\ AfterLine
    /\ idx = 3
    /\ lines[1] = "# branch.ab +2 -1"
    /\ StartsWith(LastLine, "# branch.ab ")
    /\ ~HasAbPattern(SubSeq(LastLine, 13, Len(LastLine)))
    /\ prev.ahead = 2 /\ prev.behind = 1
    /\ summary.ahead = 2 /\ summary.behind = 1

----------------------------------------------------------------------------
(* C7 *)

\* C7: a kind-'2' line with at least three fields whose X is R or C records
\* '<second-to-last field> -> <last field>' in samples.renamed; R increments
\* only staged.renamed and C only staged.copied among the staged counters;
\* both share the renamed bucket and its one cap of 10; for every other X of
\* such a line the sample recorded is the last field alone.
C7_RenamePairs ==
    (AfterLine /\ IsEntry(LastLine) /\ IsPair(LastLine)) =>
        LET l == LastLine
            x == XOf(l)
            path == LastField(l)
            twice(list, c) == IF c THEN Capped(Capped(list, path), path)
                              ELSE Capped(list, path)
        IN  /\ Len(summary.samples.renamed) <= 10
            /\ x \in {"R", "C"} =>
                  /\ summary.samples.renamed =
                         Capped(prev.samples.renamed, PairText(l))
                  /\ summary.staged.renamed = prev.staged.renamed + Inc(x = "R")
                  /\ summary.staged.copied = prev.staged.copied + Inc(x = "C")
                  /\ summary.staged.added = prev.staged.added
                  /\ summary.staged.modified = prev.staged.modified
                  /\ summary.staged.deleted = prev.staged.deleted
            /\ x \notin {"R", "C"} =>
                  /\ summary.samples.renamed = prev.samples.renamed
                  /\ summary.staged.renamed = prev.staged.renamed
                  /\ summary.staged.copied = prev.staged.copied
                  /\ x = "A" => summary.samples.added
                                    = Capped(prev.samples.added, path)
                  /\ x = "M" => summary.samples.modified
                                    = twice(prev.samples.modified, YOf(l) = "M")
                  /\ x = "D" => summary.samples.deleted
                                    = twice(prev.samples.deleted, YOf(l) = "D")

\* a copy has arrived at a renamed bucket that renames have filled: its
\* counter grows, the shared bucket does not
C7_Witness ==
    /\ AfterLine
    /\ IsEntry(LastLine) /\ IsPair(LastLine)
    /\ XOf(LastLine) = "C"
    /\ prev.staged.renamed = 10
    /\ prev.samples.renamed[10] = "old.js -> new.js"
    /\ summary.staged.copied = 1
    /\ summary.samples.renamed = prev.samples.renamed

----------------------------------------------------------------------------
(* C8 *)

\* every counter but counter number i of Counters is as it was
OnlyCounterGrew(i) ==
    \A k \in 1..Len(Counters(summary)) :
        Counters(summary)[k] = Counters(prev)[k] + Inc(k = i)

\* C8: only lines that begin with '?' and hold at least 2 characters are
\* untracked entries; each increments untracked by one, changes no other
\* counter and, while the untracked bucket holds fewer than 10 entries,
\* appends the text after the marker and one separating character; a 'u'
\* line increments conflicts by one and changes no other counter and no
\* sample list.
C8_UntrackedAndConflicts ==
    AfterLine =>
        /\ summary.untracked # prev.untracked
               => CharAt(LastLine, 1) = "?" /\ Len(LastLine) >= 2
        /\ (CharAt(LastLine, 1) = "?" /\ Len(LastLine) >= 2)
               => /\ OnlyCounterGrew(8)
                  /\ summary.samples.untracked
                         = Capped(prev.samples.untracked, UntrackedPath(LastLine))
        /\ CharAt(LastLine, 1) = "u"
               => /\ OnlyCounterGrew(9)
                  /\ summary.samples = prev.samples

----------------------------------------------------------------------------
(* C9 *)

\* the status text is the single line '# branch.head main'
C9_Case == lines = <<"# branch.head main">>

C9_Parsed ==
    /\ summary.branch = <<"main">>
    /\ \A i \in 1..Len(Counters(summary)) : Counters(summary)[i] = 0
    /\ \A b \in Buckets : Bucket(summary, b) = <<>>

\* C9 as stated: for the single line '# branch.head main' parseStatus gives
\* branch 'main', every counter 0 and every sample list empty, and
\* buildSimpleMessage returns the string 'no changes'.  (Refuted: the title
\* carries the branch suffix.)
C9_MessageIsNoChanges ==
    (pc = "done" /\ C9_Case) => C9_Parsed /\ message = "no changes"

\* C9 amended: ... and buildSimpleMessage returns 'no changes' followed by
\* the branch suffix ' <U+2014> on main', a string that contains 'no changes'.
C9_MessageIsNoChangesOnMain ==
    (pc = "done" /\ C9_Case) =>
        /\ C9_Parsed
        /\ message = "no changes " \o EmDash \o " on main"
        /\ SubSeq(message, 1, 10) = "no changes"

C9_Witness == pc = "done" /\ C9_Case /\ SubSeq(message, 1, 10) = "no changes"

----------------------------------------------------------------------------
(* C10 *)

\* s holds sub
Contains(s, sub) ==
    \E i \in 1..(Len(s) - Len(sub) + 1) : SubSeq(s, i, i + Len(sub) - 1) = sub

\* the paths some line of the text reports a staged change of
StagedPaths ==
    UNION { {LastField(lines[i])}
            \cup (IF IsPair(lines[i])
                  THEN {Fields(lines[i])[Len(Fields(lines[i])) - 1]} ELSE {}) :
            i \in {k \in 1..Len(lines) :
                      /\ IsEntry(lines[k])
                      /\ XOf(lines[k]) \in {"A", "M", "D", "R", "C"}} }

\* the paths whose only change is unstaged (X = '.', Y in {M, D}) or that
\* are untracked
UnstagedOnlyPaths ==
    ( { LastField(lines[i]) :
          i \in {k \in 1..Len(lines) :
                    /\ IsEntry(lines[k])
                    /\ XOf(lines[k]) = "."
                    /\ YOf(lines[k]) \in {"M", "D"}} }
      \cup { UntrackedPath(lines[i]) :
               i \in {k \in 1..Len(lines) : CharAt(lines[k], 1) = "?"} } )
    \ (StagedPaths \cup {""})

\* C10: with stagedOnly = true the file list and the message built from a
\* parsed summary reflect staged changes only: a path whose only change is
\* unstaged or that is untracked is neither in the file list nor anywhere in
\* the message.
C10_StagedOnlyHidesUnstaged ==
    (pc = "done" /\ stagedOnly) =>
        \A p \in UnstagedOnlyPaths :
            /\ \A i \in 1..Len(files) : files[i] # p
            /\ ~Contains(message, p)

----------------------------------------------------------------------------
(* C11 *)

\* the entries of a list, as a set
Range(seq) == {seq[i] : i \in 1..Len(seq)}

\* the places where e holds the separator ' -> ' between two non-empty sides
ArrowPlaces(e) ==
    {i \in 2..(Len(e) - 4) : SubSeq(e, i, i + 3) = " -> "}

\* e has the form 'orig -> new'
HasArrow(e) == ArrowPlaces(e) # {}

FirstArrow(e) == CHOOSE i \in ArrowPlaces(e) : \A j \in ArrowPlaces(e) : i <= j

OrigOf(e) == SubSeq(e, 1, FirstArrow(e) - 1)

NewOf(e) == SubSeq(e, FirstArrow(e) + 4, Len(e))

\* the paths a renamed entry stands for
RenamedPaths(e) == IF HasArrow(e) THEN {OrigOf(e), NewOf(e)} ELSE {e}

\* the set of changed files of summary s, as the specification declares it
DeclaredFiles(s, so) ==
    Range(s.samples.added) \cup Range(s.samples.modified)
    \cup Range(s.samples.deleted)
    \cup (IF so THEN {} ELSE Range(s.samples.untracked))
    \cup UNION {RenamedPaths(e) : e \in Range(s.samples.renamed)}

NoDuplicates(seq) ==
    \A i, j \in 1..Len(seq) : seq[i] = seq[j] => i = j

Reverse(seq) == [i \in 1..Len(seq) |-> seq[Len(seq) + 1 - i]]

\* s with every sample list in the opposite order
ReversedSamples(s) ==
    [s EXCEPT !.samples = [b \in DOMAIN s.samples |-> Reverse(s.samples[b])]]

\* C11: with stagedOnly = false getChangedFiles returns, as a set, exactly
\* samples.added, modified, deleted and untracked together with both sides of
\* every 'orig -> new' entry of samples.renamed (an entry of another form
\* counts as it is); no path is returned twice; and the set is the same when
\* the entries of the sample lists come in another order.
C11_UnionOfSamples ==
    (pc = "files" /\ ~stagedOnly) =>
        /\ Range(files) = DeclaredFiles(summary, FALSE)
        /\ NoDuplicates(files)
        /\ Range(getChangedFiles(ReversedSamples(summary), FALSE)) = Range(files)

----------------------------------------------------------------------------
(* C12 *)

\* C12: in both modes an entry of samples.renamed that does not hold the
\* exact separator ' -> ' is in the result as one literal path, unchanged and
\* unsplit, also when it holds '->' without the spaces around it.
C12_NoSeparatorKeptLiteral ==
    pc = "files" =>
        \A e \in Range(summary.samples.renamed) :
            ~HasArrow(e) => e \in Range(files)

----------------------------------------------------------------------------
(* C13 *)

\* the first place where s holds sub, 0 when it holds it nowhere
IndexOf(s, sub) ==
    LET places == {i \in 1..(Len(s) - Len(sub) + 1) :
                      SubSeq(s, i, i + Len(sub) - 1) = sub}
    IN  IF places = {} THEN 0
        ELSE CHOOSE i \in places : \A j \in places : i <= j

\* s up to its first sub, all of s when it holds none
Before(s, sub) ==
    IF IndexOf(s, sub) = 0 THEN s ELSE SubSeq(s, 1, IndexOf(s, sub) - 1)

\* s after its first sub
After(s, sub) == SubSeq(s, IndexOf(s, sub) + Len(sub), Len(s))

\* the pieces of s between the occurrences of sep
RECURSIVE SplitOn(_, _)
SplitOn(s, sep) ==
    IF IndexOf(s, sep) = 0 THEN <<s>>
    ELSE <<Before(s, sep)>> \o SplitOn(After(s, sep), sep)

\* the title of a message: its first line
TitleOf(m) == Before(m, "\n")

\* the title core of a message: the title before the branch suffix and the
\* ahead/behind suffix
CoreOf(m) == Before(Before(TitleOf(m), " " \o EmDash \o " on "), ", ahead ")

\* the counters the title reports and their category words, in title order
TitleCounters(s, so) ==
    << [n |-> s.staged.added,                    word |-> "added"],
       [n |-> s.staged.modified,                 word |-> "modified"],
       [n |-> s.staged.deleted,                  word |-> "deleted"],
       [n |-> s.staged.renamed + s.staged.copied, word |-> "renamed"] >>
    \o (IF so THEN <<>>
        ELSE << [n |-> s.unstaged.modified, word |-> "modified (unstaged)"],
                [n |-> s.unstaged.deleted,  word |-> "deleted (unstaged)"],
                [n |-> s.untracked,         word |-> "untracked"],
                [n |-> s.conflicts,         word |-> "conflict"] >>)

IsNonZero(c) == c.n # 0

\* the counters that get a part
ReportedCounters(s, so) == SelectSeq(TitleCounters(s, so), IsNonZero)

\* part reports counter c: the exact count, a space, the category word, with
\* or without a plural s
PartReports(part, c) ==
    \/ part = NumToString(c.n) \o " " \o c.word
    \/ part = NumToString(c.n) \o " " \o c.word \o "s"

\* C13: the title core holds one part per non-zero counter and none for a
\* zero counter, in the order staged added, staged modified, staged deleted,
\* staged renamed+copied (one part) and then, only when stagedOnly is false,
\* unstaged modified, unstaged deleted, untracked, conflicts; the number of a
\* part is the exact counter; the parts are joined with ', '; and the core is
\* 'no changes' exactly when there is no part.
C13_TitleCoreParts ==
    pc = "done" =>
        LET core     == CoreOf(message)
            reported == ReportedCounters(summary, stagedOnly)
            parts    == SplitOn(core, ", ")
        IN  /\ core = "no changes" <=> reported = <<>>
            /\ reported # <<>> =>
                   /\ Len(parts) = Len(reported)
                   /\ \A i \in 1..Len(parts) : PartReports(parts[i], reported[i])

\* eleven unstaged modifications after one staged one: the sample list holds
\* 10 paths and the part reports 11
C13_Witness ==
    /\ pc = "done" /\ ~stagedOnly
    /\ summary.staged.modified = 1
    /\ summary.unstaged.modified = 11
    /\ Len(summary.samples.modified) = 10
    /\ Len(SplitOn(CoreOf(message), ", ")) = 2
    /\ StartsWith(SplitOn(CoreOf(message), ", ")[2], "11 modified (unstaged)")

----------------------------------------------------------------------------
(* C14 *)

\* the summary of the README's simple-mode example
C14_Case ==
    /\ summary.staged.added = 2
    /\ summary.staged.modified = 3
    /\ summary.branch = <<"feature/auth">>
    /\ summary.ahead = 1
    /\ summary.behind = 0
    /\ \A i \in 3..Len(Counters(summary)) : Counters(summary)[i] = 0

\* C14: every title part is the count followed by the category word
\* unchanged, for every count n >= 1; and a summary with staged.added = 2,
\* staged.modified = 3, branch 'feature/auth', ahead 1, behind 0 yields the
\* title '2 added, 3 modified <U+2014> on feature/auth, ahead 1, behind 0'.
C14_CategoryWordUnchanged ==
    pc = "done" =>
        LET reported == ReportedCounters(summary, stagedOnly)
            parts    == SplitOn(CoreOf(message), ", ")
        IN  /\ reported # <<>> =>
                   /\ Len(parts) = Len(reported)
                   /\ \A i \in 1..Len(parts) :
                          parts[i] = NumToString(reported[i].n) \o " "
                                     \o reported[i].word
            /\ C14_Case =>
                   TitleOf(message) = "2 added, 3 modified " \o EmDash
                                      \o " on feature/auth, ahead 1, behind 0"

----------------------------------------------------------------------------
(* C15 *)

\* staged.added = 2, staged.modified = 1, every other counter 0, a branch
\* set, stagedOnly = true
C15_Case ==
    /\ pc = "done" /\ stagedOnly
    /\ summary.staged.added = 2
    /\ summary.staged.modified = 1
    /\ \A i \in 3..Len(Counters(summary)) : Counters(summary)[i] = 0
    /\ summary.branch # Null /\ summary.branch # <<"">>

\* C15 as stated: for such a summary the output of buildSimpleMessage holds
\* the substrings '2 files', '1 file' and 'on <branch>'.  (Refuted: the title
\* names categories, not files.)
C15_ContainsFiles ==
    C15_Case =>
        /\ Contains(message, "2 files")
        /\ Contains(message, "1 file")
        /\ Contains(message, "on " \o summary.branch[1])

\* C15 amended: for such a summary the output holds the substrings
\* '2 added', '1 modified' and 'on <branch>'.
C15_ContainsCategories ==
    C15_Case =>
        /\ Contains(message, "2 added")
        /\ Contains(message, "1 modified")
        /\ Contains(message, "on " \o summary.branch[1])

C15_Witness ==
    /\ C15_Case
    /\ summary.branch = <<"main">>
    /\ summary.samples.added = <<"file1.js", "file2.js">>
    /\ Contains(TitleOf(message), "on main")

----------------------------------------------------------------------------
(* C16 *)

\* a branch is known
BranchKnown(s) == s.branch # Null /\ s.branch # <<"">>

\* the suffixes the title is to carry after its core
DeclaredSuffix(s) ==
    (IF BranchKnown(s) THEN " " \o EmDash \o " on " \o s.branch[1] ELSE "")
    \o (IF s.ahead > 0 \/ s.behind > 0
        THEN ", ahead " \o NumToString(s.ahead)
             \o ", behind " \o NumToString(s.behind)
        ELSE "")

\* C16: the title is the title core, followed by ' <U+2014> on <branch>' if
\* and only if a branch is known, followed by ', ahead <a>, behind <b>' if
\* and only if ahead > 0 or behind > 0, in that order; with no branch and
\* ahead = behind = 0 the title is the core alone.
C16_TitleSuffixes ==
    pc = "done" =>
        TitleOf(message) = CoreOf(message) \o DeclaredSuffix(summary)

----------------------------------------------------------------------------
(* C17 *)

\* the lines of a message
MessageLines(m) == SplitOn(m, "\n")

\* the body categories in body order
BodyOrder == <<"added", "modified", "deleted", "renamed", "untracked">>

\* category b has a body line
InBody(b, so) == b = "untracked" => ~so

\* the true count of a category: the entries the status text holds for it
TrueCount(b) == Len(Recorded(b, lines))

\* C17: when the true count c of a category exceeds the sample cap of 10,
\* the body line of that category lists the 10 stored samples and ends with
\* ' (+<c-10> more)'.
C17_OverflowSuffix ==
    pc = "done" =>
        \A b \in Buckets :
            (TrueCount(b) > 10 /\ InBody(b, stagedOnly)) =>
                \E i \in 1..Len(MessageLines(message)) :
                    MessageLines(message)[i]
                        = b \o ": " \o Join(Bucket(summary, b), ", ")
                          \o " (+" \o NumToString(TrueCount(b) - 10) \o " more)"

----------------------------------------------------------------------------
(* C18 *)

\* the body lines the specification declares for summary s
DeclaredBody(s, so) ==
    LET shown(b) == Bucket(s, b) # <<>> /\ InBody(b, so)
        cats == SelectSeq(BodyOrder, shown)
    IN  [i \in 1..Len(cats) |->
            cats[i] \o ": " \o Join(Bucket(s, cats[i]), ", ")]

\* C18: the body has one line '<category>: <samples joined by ", ">' for
\* each non-empty sample list, in the order added, modified, deleted,
\* renamed, untracked, without the untracked line when stagedOnly is true;
\* the lines are joined by a newline; the result is the title alone when
\* there is no body line and otherwise title, a blank line, then the body.
C18_BodyLines ==
    pc = "done" =>
        LET body == DeclaredBody(summary, stagedOnly)
        IN  message = TitleOf(message)
                      \o (IF body = <<>> THEN ""
                          ELSE "\n\n" \o Join(body, "\n"))

\* staged only: an untracked path is sampled and the body is the added line
C18_Witness ==
    /\ pc = "done" /\ stagedOnly
    /\ summary.samples.untracked # <<>>
    /\ summary.samples.added # <<>>
    /\ Len(MessageLines(message)) = 3
    /\ StartsWith(MessageLines(message)[3], "added: ")

----------------------------------------------------------------------------
(* C19 *)

\* the calls of fn made so far
CallsOf(fn) == {i \in 1..Len(calls) : calls[i].fn = fn}

\* some call of fn has thrown
Threw(fn) == \E i \in CallsOf(fn) : calls[i].res = "threw"

\* the message has been printed with console.log(message)
Printed == mpc \notin {"start", "repo", "status", "generate", "diff", "ai", "print"}

\* C19: once the AI path has been chosen, an error raised while collecting
\* the file list, collecting the diff or calling generateWithGemini leads to
\* the printed message being buildSimpleMessage(summary, opts) for the
\* summary parsed before the attempt; git status is not fetched or parsed a
\* second time, and the command does not exit with a failure code because
\* of that error.
C19_FallbackAfterAiError ==
    Threw("generateWithGemini") =>
        /\ summary = parseStatus(text)
        /\ message = buildSimpleMessage(summary, opts.stagedOnly)
        /\ Printed => \E i \in 1..Len(out) : out[i] = message
        /\ Cardinality(CallsOf("getStatus")) = 1
        /\ Cardinality(CallsOf("parseStatus")) = 1
        /\ exitCode = Some(1) => Threw("stageAll") \/ Threw("commit")
        /\ (mpc = "exited" /\ ~opts.commit) => exitCode = Some(0)

\* generateWithGemini has thrown, the simple message of the staged changes
\* was printed last and the run has ended normally
C19_Witness ==
    /\ Threw("generateWithGemini")
    /\ mpc = "exited" /\ ~opts.commit
    /\ exitCode = Some(0)
    /\ summary.staged.added = 2
    /\ out[Len(out)] = message
    /\ StartsWith(message, "2 added")

----------------------------------------------------------------------------
(* C20 *)

\* no valid config file and no GEMINI_API_KEY, --simple not given, inside a
\* repository whose status shows changes
C20_Case ==
    /\ ~env.hasConfig /\ ~env.GEMINI_API_KEY
    /\ ~opts.simple
    /\ env.insideRepo
    /\ HasChanges(parseStatus(text), opts)

\* C20: in that case the main command falls back to the simple format: it
\* prints buildSimpleMessage(summary, opts) instead of terminating with an
\* error.
C20_NoKeyFallsBack ==
    (C20_Case /\ mpc = "exited" /\ ~\E i \in 1..Len(calls) : calls[i].res = "threw")
        => /\ \E i \in 1..Len(out) :
                  out[i] = buildSimpleMessage(parseStatus(text), opts.stagedOnly)
           /\ exitCode # Some(1)

----------------------------------------------------------------------------
(* C21 *)

\* the places of out that hold line
PlacesOf(line) == {k \in 1..Len(out) : out[k] = line}

\* C21: with --commit, commit(message) is invoked at most once, only after
\* stageAll has succeeded and after the user has confirmed with Enter, and
\* with exactly the message that was printed; the order of events is
\* generate message, stage all, show message, confirm, commit; if stageAll
\* fails, commit is never invoked and the process exits with code 1; without
\* --commit neither stageAll nor commit is ever invoked.
C21_CommitFlow ==
    /\ Cardinality(CallsOf("commit")) <= 1
    /\ \A i \in CallsOf("commit") :
          /\ opts.commit
          /\ calls[i].arg = message
          /\ i > 1 /\ calls[i - 1] = Call("rl.question", "enter", "ok")
          /\ \E j \in CallsOf("stageAll") :
                /\ j = i - 2
                /\ calls[j].res = "ok"
                /\ \E g \in 1..(j - 1) :
                      calls[g].fn \in {"buildSimpleMessage", "generateWithGemini"}
          /\ \E k \in PlacesOf(message) :
                \E h \in PlacesOf("Generated commit message:") :
                    k < h /\ out[h + 2] = message
    /\ Threw("stageAll") => CallsOf("commit") = {} /\ exitCode = Some(1)
    /\ ~opts.commit => CallsOf("stageAll") = {} /\ CallsOf("commit") = {}

\* the message the AI returned has been printed, staged, shown, confirmed
\* and committed
C21_Witness ==
    /\ opts.commit
    /\ mpc = "exited" /\ exitCode = Some(0)
    /\ calls[Len(calls)] = Call("commit", "feat: add login", "ok")
    /\ calls[Len(calls) - 2] = Call("stageAll", "", "ok")

----------------------------------------------------------------------------
(* C29 *)

\* the status has been fetched and parsed
StatusParsed == CallsOf("parseStatus") # {}

\* the run has ended right after the hasChanges check
TookNoChangesExit == StatusParsed /\ Len(calls) = 2 /\ mpc = "exited"

\* the notices of the 'no changes' exit
NoChangesNotices ==
    {"No staged changes to commit.", "No changes detected. Working tree is clean."}

\* C29: the main command takes the 'no changes' normal exit (prints the
\* notice, exits 0, generates no message) exactly when the title core that
\* buildSimpleMessage would build for the same summary and options is
\* 'no changes'; whenever a counter relevant to the mode is non-zero (staged
\* counters always; unstaged, untracked and conflicts when not staged-only)
\* a commit message is generated and printed.
C29_NoChangesExit ==
    StatusParsed =>
        /\ TookNoChangesExit
               <=> CoreOf(buildSimpleMessage(summary, opts.stagedOnly)) = "no changes"
        /\ TookNoChangesExit =>
               /\ exitCode = Some(0)
               /\ out[Len(out)] \in NoChangesNotices
               /\ message = ""
        /\ ReportedCounters(summary, opts.stagedOnly) # <<>> =>
               /\ ~TookNoChangesExit
               /\ Printed => message # "" /\ PlacesOf(message) # {}

----------------------------------------------------------------------------
(* git.getDiff, run on its own.  A text that holds output of git is kept   *)
(* as a sequence of pieces: a literal of the code, or the first len         *)
(* characters of what one git invocation wrote.                             *)

\* the pipeline is not running
PipelineIdle ==
    /\ text = ""
    /\ lines = <<>>
    /\ idx = 0
    /\ summary = EmptySummary
    /\ prev = EmptySummary
    /\ pc = "idle"
    /\ stagedOnly = FALSE
    /\ files = <<>>
    /\ message = ""

Lit(t) == [src |-> "lit", text |-> t, len |-> Len(t)]

\* the first n characters of the stdout of invocation which
Stdout(which, n) == [src |-> which, text |-> "", len |-> n]

\* a + b on texts; the empty string adds nothing
Concat(r, p) == IF p.len = 0 THEN r ELSE Append(r, p)

RECURSIVE TextLen(_)
TextLen(r) == IF r = <<>> THEN 0 ELSE Head(r).len + TextLen(Tail(r))

\* the first n characters of piece p
CutPiece(p, n) ==
    IF p.src = "lit" THEN Lit(SubSeq(p.text, 1, n)) ELSE [p EXCEPT !.len = n]

\* String.prototype.substring(0, n)
RECURSIVE TextSubstring(_, _)
TextSubstring(r, n) ==
    IF r = <<>> \/ n <= 0 THEN <<>>
    ELSE IF Head(r).len <= n
         THEN <<Head(r)>> \o TextSubstring(Tail(r), n - Head(r).len)
         ELSE <<CutPiece(Head(r), n)>>

\* the file lists of the model
FileLists ==
    { [i \in 1..n |-> "f" \o NumToString(i)] : n \in 0..MaxFiles }

\* the lengths of what a git diff invocation may write
StdoutLens == {0, 1, 49975, 49990, 50000, 50001}

\* mutant of FilesToDiff: every file is handed to git
FilesToDiff_NoCap(fs) == fs

\* const filesToDiff
FilesToDiff(fs) ==
    SubSeq(fs, 1, IF Len(fs) > MAX_FILES_FOR_DIFF THEN MAX_FILES_FOR_DIFF
                  ELSE Len(fs))

\* const remainingCount
RemainingCount(fs) == Len(fs) - Len(FilesToDiff(fs))

DiffInit ==
    /\ PipelineIdle
    /\ MainIdle
    /\ dFiles \in FileLists
    /\ dStaged \in BOOLEAN
    /\ dpc = "start"
    /\ gitOut = [cached |-> Null, worktree |-> Null]
    /\ gitArgs = <<>>
    /\ diffOutput = <<>>
    /\ dResult = Null
    /\ LibIdleExcept("Diff")

\* if (files.length === 0) return ''
DiffNoFiles ==
    /\ dpc = "start"
    /\ Len(dFiles) = 0
    /\ dResult' = Some(<<>>)
    /\ dpc' = "done"
    /\ UNCHANGED <<dFiles, dStaged, gitOut, gitArgs, diffOutput, notDiff>>

\* runGit(['diff', '--cached', '--', ...filesToDiff]), in both modes the
\* first invocation; an error of runGit is caught and '' returned
DiffCached ==
    /\ dpc = "start"
    /\ Len(dFiles) # 0
    /\ gitArgs' = Append(gitArgs, <<"diff", "--cached", "--">> \o FilesToDiff(dFiles))
    /\ \/ \E n \in StdoutLens :
             /\ gitOut' = [gitOut EXCEPT !.cached = Some(n)]
             /\ IF dStaged
                THEN /\ diffOutput' = Concat(<<>>, Stdout("cached", n))
                     /\ dpc' = "cap"
                ELSE /\ dpc' = "worktree"
                     /\ UNCHANGED diffOutput
             /\ UNCHANGED dResult
       \/ /\ dResult' = Some(<<>>)
          /\ dpc' = "done"
          /\ UNCHANGED <<gitOut, diffOutput>>
    /\ UNCHANGED <<dFiles, dStaged, notDiff>>

\* runGit(['diff', '--', ...filesToDiff]) and the two sections
DiffWorktree ==
    /\ dpc = "worktree"
    /\ gitArgs' = Append(gitArgs, <<"diff", "--">> \o FilesToDiff(dFiles))
    /\ \/ \E n \in StdoutLens :
             /\ gitOut' = [gitOut EXCEPT !.worktree = Some(n)]
             /\ diffOutput' =
                    (IF gitOut.cached[1] > 0
                     THEN << Lit("=== STAGED CHANGES ===\n"),
                             Stdout("cached", gitOut.cached[1]), Lit("\n\n") >>
                     ELSE <<>>)
                    \o (IF n > 0
                        THEN << Lit("=== UNSTAGED CHANGES ===\n"),
                                Stdout("worktree", n) >>
                        ELSE <<>>)
             /\ dpc' = "cap"
             /\ UNCHANGED dResult
       \/ /\ dResult' = Some(<<>>)
          /\ dpc' = "done"
          /\ UNCHANGED <<gitOut, diffOutput>>
    /\ UNCHANGED <<dFiles, dStaged, notDiff>>

\* the cap on the size, the note on the files left out, and the return
DiffCap ==
    /\ dpc = "cap"
    /\ LET capped ==
               IF TextLen(diffOutput) > MAX_DIFF_SIZE
               THEN Append(TextSubstring(diffOutput, MAX_DIFF_SIZE),
                           Lit("\n\n[... diff truncated ...]"))
               ELSE diffOutput
           noted ==
               IF RemainingCount(dFiles) > 0
               THEN Append(capped,
                        Lit("\n\n[" \o NumToString(RemainingCount(dFiles))
                            \o " more file(s) changed but diff not shown]"))
               ELSE capped
       IN  /\ diffOutput' = noted
           /\ dResult' = Some(noted)
    /\ dpc' = "done"
    /\ UNCHANGED <<dFiles, dStaged, gitOut, gitArgs, notDiff>>

DiffNext ==
    \/ DiffNoFiles
    \/ DiffCached
    \/ DiffWorktree
    \/ DiffCap

SpecDiff == DiffInit /\ [][DiffNext]_vars

----------------------------------------------------------------------------
(* C22 *)

\* the paths of an argument list: what follows '--'
PathsOf(args) ==
    SubSeq(args, CHOOSE i \in 1..Len(args) : args[i] = "--", Len(args))

\* some git diff invocation has failed
GitDiffFailed ==
    Len(gitArgs) > Cardinality({k \in DOMAIN gitOut : gitOut[k] # Null})

IsNote(p) == p.src = "lit" /\ Contains(p.text, " more file(s) changed")

IsMarker(p) == p.src = "lit" /\ Contains(p.text, "diff truncated")

Last(r) == r[Len(r)]

Front(r) == SubSeq(r, 1, Len(r) - 1)

EndsWithNote(r) == r # <<>> /\ IsNote(Last(r))

WithoutNote(r) == IF EndsWithNote(r) THEN Front(r) ELSE r

EndsWithMarker(r) == WithoutNote(r) # <<>> /\ IsMarker(Last(WithoutNote(r)))

\* the diff text that is kept: the result without marker and note
KeptText(r) ==
    IF EndsWithMarker(r) THEN Front(WithoutNote(r)) ELSE WithoutNote(r)

\* r holds all of what the git invocations wrote
HoldsAllOutput(r) ==
    \A k \in DOMAIN gitOut :
        (gitOut[k] # Null /\ gitOut[k] # Some(0)) =>
            \E i \in 1..Len(r) : r[i] = Stdout(k, gitOut[k][1])

\* C22: getDiff passes at most 20 paths, the first 20 of the list, to git;
\* the diff text it keeps is at most 50,000 characters, followed only by the
\* truncation marker when it was cut and, for more than 20 files, by a note
\* naming exactly len(files) - 20 remaining files; it returns the empty
\* string for an empty list and whenever a git diff invocation fails.
C22_BoundedDiff ==
    /\ \A c \in 1..Len(gitArgs) :
          /\ Len(PathsOf(gitArgs[c])) - 1 <= 20
          /\ \A i \in 2..Len(PathsOf(gitArgs[c])) :
                 PathsOf(gitArgs[c])[i] = dFiles[i - 1]
          /\ Len(PathsOf(gitArgs[c])) - 1 = 20 \/ Len(PathsOf(gitArgs[c])) - 1 = Len(dFiles)
    /\ dpc = "done" =>
          LET r == dResult[1]
          IN  /\ Len(dFiles) = 0 => r = <<>> /\ gitArgs = <<>>
              /\ GitDiffFailed => r = <<>>
              /\ (Len(dFiles) > 0 /\ ~GitDiffFailed) =>
                    /\ TextLen(KeptText(r)) <= 50000
                    /\ \A i \in 1..Len(KeptText(r)) :
                           ~IsNote(KeptText(r)[i]) /\ ~IsMarker(KeptText(r)[i])
                    /\ EndsWithMarker(r) => TextLen(KeptText(r)) = 50000
                    /\ ~EndsWithMarker(r) => HoldsAllOutput(KeptText(r))
                    /\ EndsWithNote(r) <=> Len(dFiles) > 20
                    /\ EndsWithNote(r) =>
                           Contains(Last(r).text,
                               "[" \o NumToString(Len(dFiles) - 20) \o " more file(s)")

\* 22 files, both sections, the second header cut by the cap
C22_Witness ==
    /\ dpc = "done"
    /\ Len(dFiles) = 22 /\ ~dStaged
    /\ gitOut = [cached |-> Some(49975), worktree |-> Some(50001)]
    /\ EndsWithMarker(dResult[1]) /\ EndsWithNote(dResult[1])
    /\ Len(gitArgs) = 2 /\ Len(gitArgs[2]) = 22
    /\ TextLen(dResult[1]) > 50000

----------------------------------------------------------------------------
(* utils.truncate, run on its own *)

\* the strings handed to truncate: the prefixes of one text
TruncStrings == {SubSeq("abcdefghijklmnop", 1, n) : n \in 0..MaxStr}

\* String.prototype.substring(0, n): a negative n counts as 0
Substring0(s, n) ==
    SubSeq(s, 1, IF n < 0 THEN 0 ELSE IF n > Len(s) THEN Len(s) ELSE n)

\* utils.truncate with the default suffix
truncate(str, maxLength) ==
    IF str = "" \/ Len(str) <= maxLength THEN str
    ELSE Substring0(str, maxLength - Len("...")) \o "..."

TruncInit ==
    /\ PipelineIdle
    /\ MainIdle
    /\ LibIdleExcept("Trunc")
    /\ tStr \in TruncStrings
    /\ tMax \in 0..MaxTruncate
    /\ tpc = "call"
    /\ tResult = ""

TruncCall ==
    /\ tpc = "call"
    /\ tResult' = truncate(tStr, tMax)
    /\ tpc' = "done"
    /\ UNCHANGED <<tStr, tMax, notTrunc>>

TruncNext == TruncCall

SpecTruncate == TruncInit /\ [][TruncNext]_vars

----------------------------------------------------------------------------
(* C26 *)

\* C26: truncate(str, maxLength) returns str unchanged when its length is at
\* most maxLength, and otherwise the first maxLength - 3 characters of str
\* followed by '...'; for every str and every maxLength >= 0 the result is
\* never longer than maxLength.
C26_TruncateBounded ==
    tpc = "done" =>
        /\ Len(tStr) <= tMax => tResult = tStr
        /\ (Len(tStr) > tMax /\ tMax >= 3) =>
               tResult = SubSeq(tStr, 1, tMax - 3) \o "..."
        /\ Len(tResult) <= tMax

----------------------------------------------------------------------------
(* logger.Logger, on its own: one Logger is constructed and then handed    *)
(* messages                                                                 *)

\* const LOG_LEVELS
LOG_LEVELS == [ERROR |-> 0, WARN |-> 1, INFO |-> 2, DEBUG |-> 3]

\* the level arguments of the model
LevelArgs == {"ERROR", "WARN", "INFO", "DEBUG", "error", "Debug", "trace"}

LowerCase == "abcdefghijklmnopqrstuvwxyz"

UpperCase == "ABCDEFGHIJKLMNOPQRSTUVWXYZ"

UpperChar(c) ==
    IF \E i \in 1..Len(LowerCase) : SubSeq(LowerCase, i, i) = c
    THEN LET i == CHOOSE i \in 1..Len(LowerCase) : SubSeq(LowerCase, i, i) = c
         IN  SubSeq(UpperCase, i, i)
    ELSE c

\* String.prototype.toUpperCase
RECURSIVE ToUpperCase(_)
ToUpperCase(s) ==
    IF s = "" THEN ""
    ELSE UpperChar(SubSeq(s, 1, 1)) \o ToUpperCase(SubSeq(s, 2, Len(s)))

\* LOG_LEVELS[level.toUpperCase()] || LOG_LEVELS.INFO: a level that is
\* missing or 0 gives INFO
ConstructedLevel(level) ==
    LET key == ToUpperCase(level)
    IN  IF key \in DOMAIN LOG_LEVELS /\ LOG_LEVELS[key] # 0
        THEN LOG_LEVELS[key]
        ELSE LOG_LEVELS.INFO

\* the message of the model
LogMessage == "Test message"

LogInit ==
    /\ PipelineIdle
    /\ MainIdle
    /\ LibIdleExcept("Log")
    /\ lArg \in LevelArgs
    /\ lVerbose \in BOOLEAN
    /\ lLevel = 0
    /\ lpc = "new"
    /\ lCalls = <<>>
    /\ lEmitted = <<>>

\* constructor(level, verbose)
LogConstruct ==
    /\ lpc = "new"
    /\ lLevel' = ConstructedLevel(lArg)
    /\ lpc' = "ready"
    /\ UNCHANGED <<lArg, lVerbose, lCalls, lEmitted, notLog>>

\* a method of the Logger: it writes line when cond holds
LogMethod(method, cond, line) ==
    /\ lpc = "ready"
    /\ Len(lCalls) < MaxLogs
    /\ lCalls' = Append(lCalls, [method |-> method, emitted |-> cond])
    /\ lEmitted' = IF cond THEN Append(lEmitted, line) ELSE lEmitted
    /\ UNCHANGED <<lArg, lVerbose, lLevel, lpc, notLog>>

LogError ==
    LogMethod("ERROR", lLevel >= LOG_LEVELS.ERROR, "ERROR: " \o LogMessage)

LogWarn ==
    LogMethod("WARN", lLevel >= LOG_LEVELS.WARN, "WARN: " \o LogMessage)

LogInfo == LogMethod("INFO", lLevel >= LOG_LEVELS.INFO, LogMessage)

LogDebug ==
    LogMethod("DEBUG", lLevel >= LOG_LEVELS.DEBUG \/ lVerbose,
              "DEBUG: " \o LogMessage)

LogNext ==
    \/ LogConstruct
    \/ LogError
    \/ LogWarn
    \/ LogInfo
    \/ LogDebug

SpecLogger == LogInit /\ [][LogNext]_vars

----------------------------------------------------------------------------
(* C25 *)

\* the order of the severities: ERROR < WARN < INFO < DEBUG
Rank(sev) ==
    CASE sev = "ERROR" -> 1 [] sev = "WARN" -> 2 [] sev = "INFO" -> 3
      [] sev = "DEBUG" -> 4

Severities == {"ERROR", "WARN", "INFO", "DEBUG"}

\* C25: a Logger constructed with level L emits a message of severity S if
\* and only if S is not above L, except that debug messages are also emitted
\* when verbose is true; a Logger constructed with level 'ERROR' emits only
\* error messages and suppresses warn, info and non-verbose debug messages.
C25_LevelFilter ==
    (lpc = "ready" /\ lArg \in Severities) =>
        /\ \A i \in 1..Len(lCalls) :
               lCalls[i].emitted
                   <=> \/ Rank(lCalls[i].method) <= Rank(lArg)
                       \/ lCalls[i].method = "DEBUG" /\ lVerbose
        /\ Len(lEmitted) = Cardinality({i \in 1..Len(lCalls) : lCalls[i].emitted})

----------------------------------------------------------------------------
(* utils.retry, on its own *)

\* a value thrown by fn on its n-th call: an Error object (with or without
\* the property code) or another value
Thrown(class, isError, code, n) ==
    [class |-> class, isError |-> isError, code |-> code, falsy |-> FALSE,
     n |-> n, message |-> "fn failed"]

\* the values fn throws in the model
ThrownValues(n) ==
    { Thrown("ValidationError", TRUE, Some("VALIDATION_ERROR"), n),
      Thrown("ConfigError", TRUE, Some("CONFIG_ERROR"), n),
      Thrown("APIError", TRUE, Some("EMPTY_RESPONSE"), n),
      Thrown("Error", TRUE, Null, n),
      Thrown("Object", FALSE, Some("VALIDATION_ERROR"), n),
      [Thrown("undefined", FALSE, Null, n) EXCEPT !.falsy = TRUE] }

\* new Error('Retry failed')
RetryFailed ==
    [class |-> "Error", isError |-> TRUE, code |-> Null, falsy |-> FALSE,
     n |-> 0, message |-> "Retry failed"]

\* the outcomes of one call of fn
FnOutcomes(n) ==
    {[ok |-> TRUE, value |-> "feat: message"]}
        \cup {[ok |-> FALSE, value |-> e] : e \in ThrownValues(n)}

RECURSIVE Pow(_, _)
Pow(b, e) == IF e = 0 THEN 1 ELSE b * Pow(b, e - 1)

\* err instanceof Error && ('code' in err) &&
\* (err.code === 'VALIDATION_ERROR' || err.code === 'CONFIG_ERROR')
NotRetried_ValidationOnly(err) ==
    /\ err.isError
    /\ err.code = Some("VALIDATION_ERROR")

NotRetried(err) ==
    /\ err.isError
    /\ err.code # Null
    /\ err.code \in {Some("VALIDATION_ERROR"), Some("CONFIG_ERROR")}

\* const waitTime
WaitTime_NoBackoff(delay, attempt) == delay

WaitTime(delay, attempt) == delay * Pow(API_RETRY_BACKOFF, attempt - 1)

RetryDelays == {0, 1, API_RETRY_DELAY}

RetryInit ==
    /\ PipelineIdle
    /\ MainIdle
    /\ LibIdleExcept("Retry")
    /\ rMax \in 0..MaxAttempts
    /\ rDelay \in RetryDelays
    /\ rAttempt = 1
    /\ rpc = "loop"
    /\ rErr = Null
    /\ rLastError = Null
    /\ rLog = <<>>
    /\ rResult = Null

\* one pass of the loop body, up to the next await that does not settle at
\* once: fn is called and awaited; a value is returned; a thrown value is
\* rethrown, or the timer is started, or lastError is set
RetryAttempt ==
    /\ rpc = "loop"
    /\ rAttempt <= rMax
    /\ \E o \in FnOutcomes(rAttempt) :
        LET called == Append(rLog, [ev |-> "call", n |-> rAttempt,
                                    outcome |-> o])
        IN  IF o.ok
            THEN /\ rLog' = called
                 /\ rResult' = Some([kind |-> "return", value |-> o.value])
                 /\ rpc' = "done"
                 /\ UNCHANGED <<rAttempt, rErr, rLastError>>
            ELSE IF NotRetried(o.value)
            THEN /\ rLog' = called
                 /\ rResult' = Some([kind |-> "throw", value |-> o.value])
                 /\ rpc' = "done"
                 /\ UNCHANGED <<rAttempt, rErr, rLastError>>
            ELSE IF rAttempt < rMax
            THEN /\ rLog' = Append(called,
                         [ev |-> "wait", n |-> rAttempt,
                          ms |-> WaitTime(rDelay, rAttempt)])
                 /\ rErr' = Some(o.value)
                 /\ rpc' = "wait"
                 /\ UNCHANGED <<rAttempt, rLastError, rResult>>
            ELSE /\ rLog' = called
                 /\ rLastError' = Some(o.value)
                 /\ rAttempt' = rAttempt + 1
                 /\ UNCHANGED <<rpc, rErr, rResult>>
    /\ UNCHANGED <<rMax, rDelay, notRetry>>

\* the timer fires: lastError = err; attempt++
RetryTimer ==
    /\ rpc = "wait"
    /\ rLastError' = rErr
    /\ rErr' = Null
    /\ rAttempt' = rAttempt + 1
    /\ rpc' = "loop"
    /\ UNCHANGED <<rMax, rDelay, rLog, rResult, notRetry>>

\* throw lastError || new Error('Retry failed')
RetryExhausted ==
    /\ rpc = "loop"
    /\ rAttempt > rMax
    /\ rResult' = Some([kind |-> "throw",
                        value |-> IF rLastError # Null /\ ~rLastError[1].falsy
                                  THEN rLastError[1]
                                  ELSE RetryFailed])
    /\ rpc' = "done"
    /\ UNCHANGED <<rMax, rDelay, rAttempt, rErr, rLastError, rLog, notRetry>>

RetryNext ==
    \/ RetryAttempt
    \/ RetryTimer
    \/ RetryExhausted

SpecRetry == RetryInit /\ [][RetryNext]_vars

----------------------------------------------------------------------------
(* C23, C27 *)

\* the places of the log where fn was called
CallPlaces == {i \in 1..Len(rLog) : rLog[i].ev = "call"}

WaitPlaces == {i \in 1..Len(rLog) : rLog[i].ev = "wait"}

\* an Error whose code is VALIDATION_ERROR or CONFIG_ERROR
IsFatalError(e) ==
    /\ e.isError
    /\ \/ e.code = <<"VALIDATION_ERROR">>
       \/ e.code = <<"CONFIG_ERROR">>

\* an Error with another code or with no code
IsRetryableError(e) == e.isError /\ ~IsFatalError(e)

FailedAt(i) == rLog[i].ev = "call" /\ ~rLog[i].outcome.ok

RECURSIVE TwoToThe(_)
TwoToThe(k) == IF k = 0 THEN 1 ELSE 2 * TwoToThe(k - 1)

RetrySettled == rpc = "done"

\* C23: retry(fn, maxAttempts, delay) calls fn sequentially at most
\* maxAttempts times; it returns the value of the first successful call and
\* makes no further call after it; when every attempt fails with a retryable
\* error it throws the error of the last attempt; it waits delay * 2^(k-1)
\* milliseconds after the k-th failed attempt for k < maxAttempts and does
\* not wait after the final attempt.
C23_RetryBackoff ==
    rpc # "idle" =>
        /\ Cardinality(CallPlaces) <= rMax
        /\ \A i \in CallPlaces :
               rLog[i].n = Cardinality({j \in CallPlaces : j <= i})
        /\ \A i \in CallPlaces :
               rLog[i].outcome.ok =>
                   /\ i = Len(rLog)
                   /\ \A j \in CallPlaces : j < i => ~rLog[j].outcome.ok
                   /\ rResult = <<[kind |-> "return",
                                   value |-> rLog[i].outcome.value]>>
        /\ ( /\ RetrySettled
             /\ CallPlaces # {}
             /\ \A i \in CallPlaces :
                    FailedAt(i) /\ IsRetryableError(rLog[i].outcome.value) )
           => /\ Cardinality(CallPlaces) = rMax
              /\ rLog[Len(rLog)].ev = "call"
              /\ rResult = <<[kind |-> "throw",
                              value |-> rLog[Len(rLog)].outcome.value]>>
        /\ \A i \in CallPlaces :
               ( /\ FailedAt(i)
                 /\ ~IsFatalError(rLog[i].outcome.value)
                 /\ rLog[i].n < rMax )
               => /\ i < Len(rLog)
                  /\ rLog[i + 1].ev = "wait"
                  /\ rLog[i + 1].ms = rDelay * TwoToThe(rLog[i].n - 1)
        /\ \A i \in WaitPlaces :
               /\ i > 1
               /\ FailedAt(i - 1)
               /\ rLog[i - 1].n < rMax

\* every attempt of three failed with a retryable error, with the waits of
\* 1000 and 2000 ms between them
C23_Witness ==
    /\ RetrySettled
    /\ rMax = 3
    /\ rDelay = 1000
    /\ Cardinality(CallPlaces) = 3
    /\ \A i \in CallPlaces : FailedAt(i) /\ IsRetryableError(rLog[i].outcome.value)
    /\ {rLog[i].ms : i \in WaitPlaces} = {1000, 2000}
    /\ rResult # <<>>
    /\ rResult[1].kind = "throw"

\* C27: if fn throws an error whose code is VALIDATION_ERROR or CONFIG_ERROR
\* on attempt k, retry rethrows that same error immediately, having called
\* fn exactly k times and without waiting; an error with any other code or
\* with no code (such as the APIError code EMPTY_RESPONSE) is retried until
\* maxAttempts is reached.
C27_FatalNotRetried ==
    rpc # "idle" =>
        /\ \A i \in CallPlaces :
               (FailedAt(i) /\ IsFatalError(rLog[i].outcome.value)) =>
                   /\ i = Len(rLog)
                   /\ RetrySettled
                   /\ rResult = <<[kind |-> "throw",
                                   value |-> rLog[i].outcome.value]>>
                   /\ Cardinality(CallPlaces) = rLog[i].n
        /\ \A i \in CallPlaces :
               (FailedAt(i) /\ IsRetryableError(rLog[i].outcome.value)) =>
                   \/ rLog[i].n = rMax
                   \/ /\ i < Len(rLog)
                      /\ rLog[i + 1].ev = "wait"
                      /\ \/ ~RetrySettled
                         \/ /\ i + 2 <= Len(rLog)
                            /\ rLog[i + 2].ev = "call"
                            /\ rLog[i + 2].n = rLog[i].n + 1
        /\ (RetrySettled /\ CallPlaces # {} /\ rResult[1].kind = "throw"
            /\ IsRetryableError(rResult[1].value))
           => Cardinality(CallPlaces) = rMax

\* a ConfigError on the second attempt, after an EMPTY_RESPONSE on the first
C27_Witness ==
    /\ RetrySettled
    /\ rMax = 3
    /\ Len(rLog) = 3
    /\ rLog[1].ev = "call"
    /\ rLog[1].outcome.value.code = <<"EMPTY_RESPONSE">>
    /\ rLog[3].ev = "call"
    /\ ~rLog[3].outcome.ok
    /\ rLog[3].outcome.value.code = <<"CONFIG_ERROR">>
    /\ rResult = <<[kind |-> "throw", value |-> rLog[3].outcome.value]>>

----------------------------------------------------------------------------
(* message.generateWithGemini, with cache.getCachedMessage,                *)
(* cache.cacheMessage and the Gemini service                               *)

\* String.prototype.includes
includes(s, sub) ==
    \E i \in 1..(Len(s) - Len(sub) + 1) : SubSeq(s, i, i + Len(sub) - 1) = sub

\* the characters \w matches
WordChars ==
    "abcdefghijklmnopqrstuvwxyzABCDEFGHIJKLMNOPQRSTUVWXYZ0123456789_"

IsWordChar(c) == c # "" /\ includes(WordChars, c)

\* stands for the three backquotes of a markdown code fence (FENCE below),
\* which a string of this language cannot hold
Fence == "~~~"

\* the place after the run of \w characters that starts at i
RECURSIVE SkipWord(_, _)
SkipWord(s, i) == IF IsWordChar(CharAt(s, i)) THEN SkipWord(s, i + 1) ELSE i

\* message.replace(/^FENCE[\w]*\n?/gm, ""), from place i on
RECURSIVE StripOpenFences(_, _)
StripOpenFences(s, i) ==
    IF i > Len(s) THEN ""
    ELSE IF /\ i = 1 \/ CharAt(s, i - 1) = "\n"
            /\ i + 2 <= Len(s)
            /\ SubSeq(s, i, i + 2) = Fence
    THEN LET j == SkipWord(s, i + 3)
         IN  StripOpenFences(s, IF CharAt(s, j) = "\n" THEN j + 1 ELSE j)
    ELSE CharAt(s, i) \o StripOpenFences(s, i + 1)

\* a fence that ends its line starts at place i
FenceAtLineEnd(s, i) ==
    /\ i + 2 <= Len(s)
    /\ SubSeq(s, i, i + 2) = Fence
    /\ i + 3 > Len(s) \/ CharAt(s, i + 3) = "\n"

\* message.replace(/\n?FENCE$/gm, ""), from place i on
RECURSIVE StripCloseFences(_, _)
StripCloseFences(s, i) ==
    IF i > Len(s) THEN ""
    ELSE IF CharAt(s, i) = "\n" /\ FenceAtLineEnd(s, i + 1)
    THEN StripCloseFences(s, i + 4)
    ELSE IF FenceAtLineEnd(s, i)
    THEN StripCloseFences(s, i + 3)
    ELSE CharAt(s, i) \o StripCloseFences(s, i + 1)

\* response.text().trim(), then the markdown code fences are stripped
CleanMessage(responseText) ==
    Trim(StripCloseFences(StripOpenFences(Trim(responseText), 1), 1))

\* an Error object with a message, and a code when it is a GCMError
ErrorObject(class, code, msg) ==
    [class |-> class, isError |-> TRUE, code |-> code, falsy |-> FALSE,
     n |-> 0, message |-> msg]

APIError(msg, code) == ErrorObject("APIError", Some(code), msg)

\* what one call of generateContent can end with: a response text or an
\* error of the service
ResponseTexts ==
    {"feat: add parser", "~~~\nfix: typo\n~~~\n", "  \n", "~~~text\n~~~"}

ServiceErrors ==
    { ErrorObject("Error", Null, "[404 Not Found] models/x"),
      ErrorObject("Error", Null, "models/x is not found for API version"),
      ErrorObject("Error", Null, "x is not supported for generateContent"),
      ErrorObject("Error", Null, "[400 Bad Request] reason: API_KEY_INVALID"),
      ErrorObject("Error", Null, "[429 Too Many Requests] quota exceeded"),
      ErrorObject("Error", Null, "fetch failed") }

AnswersOf(texts, errors) ==
    {[ok |-> TRUE, value |-> t] : t \in texts}
        \cup {[ok |-> FALSE, value |-> e] : e \in errors}

\* the Gemini services of the model: one that can answer anything, and one
\* that knows every model
GeminiServices ==
    { AnswersOf(ResponseTexts, ServiceErrors),
      AnswersOf({"feat: add parser", "  \n"},
                {ErrorObject("Error", Null, "fetch failed")}) }

\* config?.model || process.env.GEMINI_MODEL: Null when neither is set
ConfiguredModels == {Null, Some("gemini-1.5-pro"), Some("tuned-model")}

\* the diff and the files handed to generateWithGemini
GenInputs ==
    { [diff |-> "diff --git a/a.js b/a.js", files |-> <<"a.js">>],
      [diff |-> "", files |-> <<"a.js", "b.js">>] }

\* the time that passes between two calls
Elapses == {0, CACHE_MAX_AGE, CACHE_MAX_AGE + 1}

\* JSON.stringify of an array of strings without characters to escape
JSONStringify(list) ==
    "[" \o Join([i \in 1..Len(list) |-> "\"" \o list[i] \o "\""], ",") \o "]"

\* const cacheKey
CacheKeyOf(in) == IF in.diff # "" THEN in.diff ELSE JSONStringify(in.files)

CacheKeys == {CacheKeyOf(in) : in \in GenInputs}

\* cache.generateCacheKey and cache.getCachePath: the file of a key
CachePath(key) == <<"sha256", key, ".json">>

CacheFiles == {CachePath(k) : k \in CacheKeys}

\* age > CACHE_MAX_AGE
Expired_Never(age) == FALSE

Expired(age) == age > CACHE_MAX_AGE

\* config.getModel
getModel(configured, defaultModel) ==
    IF configured # Null THEN configured[1] ELSE defaultModel

\* [...new Set(list)]
RECURSIVE Unique(_)
Unique(list) ==
    IF list = <<>> THEN <<>>
    ELSE LET front == Unique(SubSeq(list, 1, Len(list) - 1))
             last == list[Len(list)]
         IN  IF \E i \in 1..Len(front) : front[i] = last
             THEN front ELSE Append(front, last)

\* const uniqueModels
UniqueModels(configured) ==
    Unique(<<getModel(configured, DEFAULT_MODELS[1])>> \o DEFAULT_MODELS)

\* the test that lets the loop go on to the next model
ModelUnavailable_AnyError(err) == TRUE

ModelUnavailable(err) ==
    \/ includes(err.message, "404")
    \/ includes(err.message, "not found")
    \/ includes(err.message, "not supported")

\* what the catch block of the loop throws for an error that ends the call
Bail(err) ==
    IF includes(err.message, "API_KEY") \/ err.code = Some("NO_API_KEY")
    THEN APIError("Invalid or missing API key. Get your API key from "
                      \o GEMINI_API_KEY_URL, "INVALID_API_KEY")
    ELSE IF includes(err.message, "quota") \/ includes(err.message, "rate limit")
    THEN APIError("Gemini API quota exceeded or rate limited. Please try again later or use --simple flag.",
                  "QUOTA_EXCEEDED")
    ELSE err

GenInit ==
    /\ PipelineIdle
    /\ MainIdle
    /\ LibIdleExcept("Gen")
    /\ gApi \in GeminiServices
    /\ gCache = [f \in CacheFiles |-> Null]
    /\ gNow = 0
    /\ gCallNo = 0
    /\ gIn = Null
    /\ gpc = "idle"
    /\ gModels = <<>>
    /\ gIdx = 0
    /\ gAttempt = 0
    /\ gLastError = Null
    /\ gResult = Null
    /\ gTried = <<>>
    /\ gOps = <<>>
    /\ gGenerated = [k \in CacheKeys |-> Null]

\* generateWithGemini up to its first await: the API key, the cache lookup
\* (cache.getCachedMessage) and the list of models
GenBegin ==
    /\ gpc \in {"idle", "done"}
    /\ gCallNo < MaxGenCalls
    /\ \E apiKey \in BOOLEAN, configured \in ConfiguredModels,
          in \in GenInputs, elapsed \in Elapses :
        LET now == IF gCallNo = 0 THEN gNow ELSE gNow + elapsed
            key == CacheKeyOf(in)
            file == CachePath(key)
            entry == gCache[file]
            stale == entry # Null /\ Expired(now - entry[1].timestamp)
            cachedMessage == IF entry = Null \/ stale THEN ""
                             ELSE entry[1].message
        IN  /\ gNow' = now
            /\ gCallNo' = gCallNo + 1
            /\ gIn' = Some([apiKey |-> apiKey, configured |-> configured,
                            diff |-> in.diff, files |-> in.files,
                            known |-> gGenerated[key]])
            /\ gTried' = <<>>
            /\ gLastError' = Null
            /\ IF ~apiKey
               THEN /\ gResult' = Some([kind |-> "throw",
                         value |-> APIError("API key not configured. Run \"gcm config --set\" to set your API key.",
                                            "NO_API_KEY")])
                    /\ gpc' = "done"
                    /\ gOps' = <<>>
                    /\ gModels' = <<>>
                    /\ gIdx' = 0
                    /\ gAttempt' = 0
                    /\ UNCHANGED gCache
               ELSE /\ gOps' = <<[op |-> "read", key |-> key]>>
                              \o (IF stale THEN <<[op |-> "unlink", key |-> key]>>
                                  ELSE <<>>)
                    /\ gCache' = IF stale THEN [gCache EXCEPT ![file] = Null]
                                 ELSE gCache
                    /\ IF cachedMessage # ""
                       THEN /\ gResult' = Some([kind |-> "return",
                                                value |-> cachedMessage])
                            /\ gpc' = "done"
                            /\ gModels' = <<>>
                            /\ gIdx' = 0
                            /\ gAttempt' = 0
                       ELSE /\ gResult' = Null
                            /\ gpc' = "try"
                            /\ gModels' = UniqueModels(configured)
                            /\ gIdx' = 1
                            /\ gAttempt' = 1
    /\ UNCHANGED <<gApi, gGenerated, notGen>>

\* the history of the models called, after one more call of the current one
Called ==
    IF gAttempt = 1
    THEN Append(gTried, [model |-> gModels[gIdx], attempts |-> 1])
    ELSE [gTried EXCEPT ![Len(gTried)].attempts = gAttempt]

\* retry has thrown err: the catch block of the loop over the models, and
\* what follows the loop
GenCatch(err) ==
    IF ModelUnavailable(err)
    THEN /\ gLastError' = Some(err)
         /\ IF gIdx < Len(gModels)
            THEN /\ gIdx' = gIdx + 1
                 /\ gAttempt' = 1
                 /\ UNCHANGED <<gpc, gResult>>
            ELSE /\ gResult' = Some([kind |-> "throw",
                        value |-> APIError("No available Gemini model found. Tried: "
                                    \o Join(gModels, ", ") \o ". Error: "
                                    \o err.message
                                    \o ". You can set a specific model via GEMINI_MODEL environment variable or in config.",
                                    "MODEL_NOT_FOUND")])
                 /\ gpc' = "done"
                 /\ UNCHANGED <<gIdx, gAttempt>>
    ELSE /\ gResult' = Some([kind |-> "throw", value |-> Bail(err)])
         /\ gpc' = "done"
         /\ UNCHANGED <<gIdx, gAttempt, gLastError>>

\* one attempt of retry for the current model: generateContent answers; a
\* message is cached (cache.cacheMessage) and returned; after a failure retry
\* waits and goes on, or throws into the catch block of the loop
GenAttempt ==
    /\ gpc = "try"
    /\ \E o \in gApi :
        LET cleaned == IF o.ok THEN CleanMessage(o.value) ELSE ""
            err == IF o.ok
                   THEN APIError("Generated message is empty", "EMPTY_RESPONSE")
                   ELSE o.value
            key == CacheKeyOf(gIn[1])
        IN  /\ gTried' = Called
            /\ IF o.ok /\ cleaned # ""
               THEN /\ gCache' = [gCache EXCEPT ![CachePath(key)] =
                            Some([message |-> cleaned, timestamp |-> gNow,
                                  diffHash |-> CachePath(key)[2]])]
                    /\ gOps' = Append(gOps, [op |-> "write", key |-> key])
                    /\ gGenerated' = [gGenerated EXCEPT ![key] =
                            Some([message |-> cleaned, at |-> gNow])]
                    /\ gResult' = Some([kind |-> "return", value |-> cleaned])
                    /\ gpc' = "done"
                    /\ UNCHANGED <<gIdx, gAttempt, gLastError>>
               ELSE /\ UNCHANGED <<gCache, gOps, gGenerated>>
                    /\ IF ~NotRetried(err) /\ gAttempt < API_RETRY_ATTEMPTS
                       THEN /\ gAttempt' = gAttempt + 1
                            /\ UNCHANGED <<gIdx, gpc, gLastError, gResult>>
                       ELSE GenCatch(err)
    /\ UNCHANGED <<gApi, gNow, gCallNo, gIn, gModels, notGen>>

GenNext ==
    \/ GenBegin
    \/ GenAttempt

SpecGen == GenInit /\ [][GenNext]_vars

----------------------------------------------------------------------------
(* C28 *)

GenCalled == gIn # <<>>

GenSettled == gpc = "done"

GenThrew(code) ==
    /\ GenSettled
    /\ gResult[1].kind = "throw"
    /\ gResult[1].value.code = <<code>>

GenReturned == GenSettled /\ gResult[1].kind = "return"

\* the configured model first, then the default models, each once
ModelOrder ==
    IF gIn[1].configured = <<>> THEN DEFAULT_MODELS
    ELSE <<gIn[1].configured[1]>>
             \o SelectSeq(DEFAULT_MODELS,
                          LAMBDA m : m # gIn[1].configured[1])

\* the message names a model that is not available
NamesUnavailable(msg) ==
    \/ Contains(msg, "404")
    \/ Contains(msg, "not found")
    \/ Contains(msg, "not supported")

\* C28: generateWithGemini tries the models in the order configured model
\* first, then the default models, each distinct model at most once and each
\* with at most 3 attempts; it moves on to the next model only when the
\* current model's attempts end with an error whose message contains '404',
\* 'not found' or 'not supported'; any other error aborts the call without
\* trying the remaining models; the first success is returned and no later
\* model is tried; if every model ends as unavailable it throws an APIError
\* with code MODEL_NOT_FOUND; with no API key it throws NO_API_KEY before any
\* cache lookup or model call.
C28_ModelFallback ==
    GenCalled =>
        /\ Len(gTried) <= Len(ModelOrder)
        /\ \A i \in 1..Len(gTried) :
               /\ gTried[i].model = ModelOrder[i]
               /\ gTried[i].attempts \in 1..3
        /\ Len(gTried) >= 2 =>
               /\ gLastError # <<>>
               /\ NamesUnavailable(gLastError[1].message)
               /\ \A i \in 1..(Len(gTried) - 1) : gTried[i].attempts = 3
        /\ (GenSettled /\ gResult[1].kind = "throw" /\ gIn[1].apiKey) =>
               /\ gTried # <<>>
               /\ gTried[Len(gTried)].attempts = 3
               /\ IF GenThrew("MODEL_NOT_FOUND")
                  THEN /\ Len(gTried) = Len(ModelOrder)
                       /\ NamesUnavailable(gLastError[1].message)
                  ELSE /\ gResult[1].value.code \in
                              {<<>>, <<"INVALID_API_KEY">>,
                               <<"QUOTA_EXCEEDED">>, <<"EMPTY_RESPONSE">>}
                       /\ gResult[1].value.code \in {<<>>, <<"EMPTY_RESPONSE">>}
                              => ~NamesUnavailable(gResult[1].value.message)
        /\ (GenReturned /\ gTried # <<>>) =>
               /\ gResult[1].value # ""
               /\ gOps[Len(gOps)] = [op |-> "write", key |-> CacheKeyOf(gIn[1])]
        /\ ~gIn[1].apiKey =>
               /\ GenThrew("NO_API_KEY")
               /\ gOps = <<>>
               /\ gTried = <<>>

\* every model, the configured one first, was tried three times and found
\* unavailable
C28_Witness ==
    /\ GenCalled
    /\ GenThrew("MODEL_NOT_FOUND")
    /\ gIn[1].configured = <<"tuned-model">>
    /\ Len(gTried) = 6
    /\ gTried[1].model = "tuned-model"
    /\ \A i \in 1..Len(gTried) : gTried[i].attempts = 3

----------------------------------------------------------------------------
(* C24 *)

SevenDays == 7 * 24 * 60 * 60 * 1000

\* an earlier call generated a message for the key of this call
GeneratedBefore == GenCalled /\ gIn[1].known # <<>>

\* the time since that message was generated
AgeOfKnown == gNow - gIn[1].known[1].at

\* the cache operations of the call, by name
OpsOf(name) == {i \in 1..Len(gOps) : gOps[i].op = name}

\* a failed or empty generation stores nothing: the cache is written only
\* by the call that returns a message it generated, and with that message
StoresOnlySuccess ==
    /\ Cardinality(OpsOf("write")) <= 1
    /\ OpsOf("write") # {} =>
           /\ GenReturned
           /\ gTried # <<>>
           /\ gResult[1].value # ""
           /\ gCache[CachePath(CacheKeyOf(gIn[1]))] # <<>>
           /\ gCache[CachePath(CacheKeyOf(gIn[1]))][1].message = gResult[1].value
    /\ (GenSettled /\ gResult[1].kind = "throw") =>
           /\ OpsOf("write") = {}
           /\ gIn[1].known = <<>> =>
                  gCache[CachePath(CacheKeyOf(gIn[1]))] = <<>>

\* what a call does with a message generated before, when P holds of it
CacheUse(P) ==
    (GeneratedBefore /\ GenSettled /\ P) =>
        IF AgeOfKnown <= SevenDays
        THEN /\ gResult[1] = [kind |-> "return",
                              value |-> gIn[1].known[1].message]
             /\ gTried = <<>>
        ELSE /\ gTried # <<>>
             /\ LET entry == gCache[CachePath(CacheKeyOf(gIn[1]))]
                IN  IF GenReturned
                    THEN /\ OpsOf("write") # {}
                         /\ entry = <<[message |-> gResult[1].value,
                                       timestamp |-> gNow,
                                       diffHash |-> CacheKeyOf(gIn[1])]>>
                    ELSE entry = <<>>

----------------------------------------------------------------------------
(* templates.buildPromptFromTemplate with the default template, on its own *)

\* stands for the sign "less than or equal", which a string of this
\* language cannot hold
LessEqual == "<="

\* export const DEFAULT_TEMPLATE
DEFAULT_TEMPLATE ==
    "You are an expert developer writing git commit messages. Generate a clear, concise commit message based on the following git changes.\n"
    \o "\n"
    \o "Branch: {{branch}}\n"
    \o "Changes: {{changes}}\n"
    \o "{{#if branchStatus}}Branch status: {{branchStatus}}\n"
    \o "{{/if}}Files changed:\n"
    \o "{{files}}\n"
    \o "\n"
    \o "{{#if diff}}\n"
    \o "Git diff:\n"
    \o "{{diff}}\n"
    \o "{{else}}\n"
    \o "No diff available (likely new/untracked files)\n"
    \o "{{/if}}\n"
    \o "\n"
    \o "Requirements:\n"
    \o "- Use Conventional Commits format (e.g., \"feat:\", \"fix:\", \"refactor:\", \"docs:\", \"style:\", \"test:\", \"chore:\")\n"
    \o "- Subject line should be " \o LessEqual \o " {{maxSubjectLength}} characters\n"
    \o "- Use present tense, imperative mood (e.g., \"Add feature\" not \"Added feature\")\n"
    \o "- Be specific about what changed and why (if clear from diff)\n"
    \o "- If there's a body, wrap at {{maxBodyLength}} characters\n"
    \o "- Focus on the \"what\" and \"why\", not just \"how\"\n"
    \o "\n"
    \o "Generate ONLY the commit message (title and optional body). Do not include any explanations or markdown formatting."

\* the first place from i on where s holds sub, 0 when there is none
FindFrom(s, sub, i) ==
    LET places == {j \in i..(Len(s) - Len(sub) + 1) :
                      SubSeq(s, j, j + Len(sub) - 1) = sub}
    IN  IF places = {} THEN 0
        ELSE CHOOSE j \in places : \A k \in places : j <= k

\* s holds sub at place i
HoldsAt(s, sub, i) ==
    i + Len(sub) - 1 <= Len(s) /\ SubSeq(s, i, i + Len(sub) - 1) = sub

\* interface TemplateData: the fields of data, each undefined (Null) or
\* Some([text, truthy]) with String(value) and the truth of the value
TemplateValue(data, key) ==
    IF key \in DOMAIN data THEN Some(data[key]) ELSE Null

\* result.replace(/\{\{(\w+)\}\}/g, ...), from place i on
RECURSIVE ReplaceVars(_, _, _)
ReplaceVars(s, data, i) ==
    LET open == FindFrom(s, "{{", i)
    IN  IF open = 0 THEN SubSeq(s, i, Len(s))
        ELSE LET end == SkipWord(s, open + 2)
                 key == SubSeq(s, open + 2, end - 1)
             IN  IF end > open + 2 /\ HoldsAt(s, "}}", end)
                 THEN SubSeq(s, i, open - 1)
                      \o (IF TemplateValue(data, key) # Null
                          THEN data[key].text
                          ELSE SubSeq(s, open, end + 1))
                      \o ReplaceVars(s, data, end + 2)
                 ELSE SubSeq(s, i, open) \o ReplaceVars(s, data, open + 1)

\* result.replace(/\{\{#if\s+(\w+)\}\}([\s\S]*?)\{\{\/if\}\}/g, ...), from
\* place i on
RECURSIVE ReplaceIfs(_, _, _)
ReplaceIfs(s, data, i) ==
    LET open == FindFrom(s, "{{#if", i)
    IN  IF open = 0 THEN SubSeq(s, i, Len(s))
        ELSE LET word == SkipSpace(s, open + 5)
                 end == SkipWord(s, word)
                 key == SubSeq(s, word, end - 1)
                 close == IF HoldsAt(s, "}}", end)
                          THEN FindFrom(s, "{{/if}}", end + 2) ELSE 0
             IN  IF word > open + 5 /\ end > word /\ close # 0
                 THEN SubSeq(s, i, open - 1)
                      \o (IF TemplateValue(data, key) # Null /\ data[key].truthy
                          THEN SubSeq(s, end + 2, close - 1)
                          ELSE "")
                      \o ReplaceIfs(s, data, close + 7)
                 ELSE SubSeq(s, i, open) \o ReplaceIfs(s, data, open + 1)

\* templates.renderTemplate
renderTemplate(template, data) ==
    ReplaceIfs(ReplaceVars(template, data, 1), data, 1)

\* a string value of data
StringValue(s) == [text |-> s, truthy |-> s # ""]

\* a value of data that is a string or null
NullableValue(v) ==
    IF v = Null THEN [text |-> "null", truthy |-> FALSE] ELSE StringValue(v[1])

\* a number value of data
NumberValue(n) == [text |-> NumToString(n), truthy |-> n # 0]

\* const changeSummary, once the pushes have run
PushIf(list, n, label) ==
    IF n > 0 THEN Append(list, NumToString(n) \o " " \o label) ELSE list

ChangeSummary(s, so) ==
    LET staged == PushIf(PushIf(PushIf(PushIf(<<>>,
                      s.staged.added, "file(s) added"),
                      s.staged.modified, "file(s) modified"),
                      s.staged.deleted, "file(s) deleted"),
                      s.staged.renamed, "file(s) renamed")
    IN  IF ~so
        THEN PushIf(PushIf(staged,
                 s.unstaged.modified, "file(s) modified (unstaged)"),
                 s.untracked, "untracked file(s)")
        ELSE staged

\* const branchStatus
BranchStatus(s) ==
    IF s.ahead > 0 \/ s.behind > 0
    THEN Some(NumToString(s.ahead) \o " ahead, " \o NumToString(s.behind)
                  \o " behind remote")
    ELSE Null

\* const filesList
FilesList(list) ==
    LET shown == SubSeq(list, 1, IF Len(list) < MAX_FILE_LIST_DISPLAY
                                 THEN Len(list) ELSE MAX_FILE_LIST_DISPLAY)
    IN  Join([i \in 1..Len(shown) |-> "- " \o shown[i]], "\n")
        \o (IF Len(list) > MAX_FILE_LIST_DISPLAY
            THEN "\n... and " \o NumToString(Len(list) - MAX_FILE_LIST_DISPLAY)
                     \o " more file(s)"
            ELSE "")

\* const data
TemplateDataOf(s, d, list, so) ==
    [ branch           |-> StringValue(IF s.branch # Null /\ s.branch[1] # ""
                                       THEN s.branch[1] ELSE "unknown"),
      changes          |-> StringValue(Join(ChangeSummary(s, so), ", ")),
      branchStatus     |-> NullableValue(BranchStatus(s)),
      files            |-> StringValue(FilesList(list)),
      diff             |-> NullableValue(IF d # "" THEN Some(d) ELSE Null),
      maxSubjectLength |-> NumberValue(MAX_SUBJECT_LENGTH),
      maxBodyLength    |-> NumberValue(MAX_BODY_LINE_LENGTH) ]

\* templates.buildPromptFromTemplate with templateName 'default'
buildPromptFromTemplate(s, d, list, so) ==
    renderTemplate(DEFAULT_TEMPLATE, TemplateDataOf(s, d, list, so))

\* the inputs of the model
PromptSummaries ==
    { [EmptySummary EXCEPT !.branch = b, !.ahead = a, !.behind = h,
                           !.staged.modified = m, !.untracked = u] :
          b \in {Null, Some("main")}, a \in 0..1, h \in 0..1, m \in 0..1,
          u \in 0..1 }

PromptDiffs == {"", "diff --git a/a.js b/a.js\n+x", "+ {{/if}}"}

PromptFiles ==
    { <<>>, <<"a.js">>, <<"a.js", "b {{x}}.js">>,
      [i \in 1..(MAX_FILE_LIST_DISPLAY + 1) |-> "f" \o NumToString(i)] }

PromptInit ==
    /\ PipelineIdle
    /\ MainIdle
    /\ LibIdleExcept("Prompt")
    /\ pSummary \in PromptSummaries
    /\ pDiff \in PromptDiffs
    /\ pFiles \in PromptFiles
    /\ pStagedOnly \in BOOLEAN
    /\ ppc = "call"
    /\ pPrompt = ""

PromptCall ==
    /\ ppc = "call"
    /\ pPrompt' = buildPromptFromTemplate(pSummary, pDiff, pFiles, pStagedOnly)
    /\ ppc' = "done"
    /\ UNCHANGED <<pSummary, pDiff, pFiles, pStagedOnly, notPrompt>>

PromptNext == PromptCall

SpecPrompt == PromptInit /\ [][PromptNext]_vars

----------------------------------------------------------------------------
(* C30 *)

\* neither the diff nor a file name holds a template tag opener
C30_Case ==
    /\ ppc = "done"
    /\ ~Contains(pDiff, "{{")
    /\ \A i \in 1..Len(pFiles) : ~Contains(pFiles[i], "{{")

NoDiffLine == "No diff available"

\* the branch status line is there exactly when the branch is ahead or behind
C30_BranchStatusLine ==
    C30_Case =>
        (Contains(pPrompt, "Branch status:")
             <=> (pSummary.ahead > 0 \/ pSummary.behind > 0))

\* C30: for a diff and file names that contain no '{{', the prompt built by
\* buildPromptFromTemplate from the default template contains the 'Git diff:'
\* section with the diff text and not the 'No diff available' line when the
\* diff is non-empty, and contains the 'No diff available' line and no
\* 'Git diff:' section when the diff is empty; the 'Branch status:' line is
\* present if and only if ahead > 0 or behind > 0; and no template tag
\* ('{{...}}') remains in the rendered prompt.
C30_PromptSections ==
    C30_Case =>
        /\ pDiff # "" =>
               /\ Contains(pPrompt, "Git diff:\n" \o pDiff)
               /\ ~Contains(pPrompt, NoDiffLine)
        /\ pDiff = "" =>
               /\ Contains(pPrompt, NoDiffLine)
               /\ ~Contains(pPrompt, "Git diff:")
        /\ Contains(pPrompt, "Branch status:")
               <=> (pSummary.ahead > 0 \/ pSummary.behind > 0)
        /\ ~Contains(pPrompt, "{{")

====
